---- MODULE Spec2Model ----
(***************************************************************************)
(* LinkedIn Comment Copilot: the comment-generation pipeline of the        *)
(* background service worker (rate-limit gate, response cache, two-stage   *)
(* provider call, write-through), the AntiDetect rate/cooldown check and   *)
(* the CacheService semantic cache.                                        *)
(*                                                                         *)
(* Times are milliseconds, as Date.now() returns them.  Texts are          *)
(* sequences of characters or tokens, so that slicing, trimming and        *)
(* stripping are computed and not assumed.                                 *)
(***************************************************************************)
EXTENDS Integers, Sequences, FiniteSets, TLC

VARIABLES
    now,            \* the value Date.now() returns
    rateLimit,      \* chrome.storage.local 'rateLimit'.timestamps
    responseCache,  \* chrome.storage.local 'responseCache' (service worker layout)
    commentHistory, \* chrome.storage.local 'commentHistory'
    req,            \* one record per generateComment invocation slot
    generated,      \* history: provider-backed generations completed so far
    adResult,       \* last value returned by AntiDetect.checkRateLimit
    driver,         \* the component the execution exercises: "worker" or "cache"
    semCache,       \* chrome.storage.local 'responseCache' (CacheService layout)
    getResult,      \* the value the last CacheService.get returned
    repeated,       \* history: that get hit returned the text of the hit before it
    inserted,       \* history: fingerprints CacheService.set has been given so far
    touched,        \* history: CacheService.set calls on a fingerprint given before
    firstAt,        \* history: time of the first CacheService.set, -1 before it
    lastSet,        \* history: what the CacheService.set that just returned was given
    call,           \* the callLLM invocation in progress, with its history
    simResult,      \* the value the last checkSimilarityToRecent returned
    fingerprints,   \* the last two posts generateSemanticHash was given, with
                    \* what it returned, latest first
    feed,           \* the feed posts of the page the content script runs in
    pointer,        \* the post the pointer is over (0: none) and since when
    fullResult,     \* the value the last AntiDetect.runFullCheck returned
    wordLimits,     \* the last two token budgets a generation prompt was built
                    \* for, with the word limit placed in it, latest first
    panel,          \* the suggestion panel of the content script: what it
                    \* shows and the generateAndDisplayComment calls on it
    inbox,          \* the last message the onMessage listener was given
    offscreen,      \* the offscreen document, creatingOffscreen and the
                    \* setupOffscreenDocument calls in progress
    bridge          \* the local-provider requests of the content script, the
                    \* prompts the AI bridge holds and the window messages
                    \* it has posted

\* what CacheService owns; no code of the repository calls CacheService, so an
\* execution drives either the service worker or CacheService
cacheVars == <<semCache, getResult, repeated, inserted, touched, firstAt, lastSet>>

\* what the checks made outside the pipeline own
pageVars == <<simResult, fingerprints, feed, pointer>>

\* what the content script and the helpers around the pipeline own
uiVars == <<fullResult, wordLimits, panel, inbox, offscreen, bridge>>

vars == <<now, rateLimit, responseCache, commentHistory, req,
          generated, adResult, driver, cacheVars, call, pageVars, uiVars>>

----------------------------------------------------------------------------
\* Program constants

\* RATE_LIMIT.maxCommentsPerHour
MaxCommentsPerHour == 10
\* RATE_LIMIT.windowMs
WindowMs == 3600000
\* the literal 24 * 60 * 60 * 1000 of the cache test in generateComment
CacheTtlMs == 86400000
\* AntiDetect.config.minTimeBetweenComments
MinTimeBetweenComments == 30000
\* the divisor / 1000 / 60 that turns milliseconds into minutes
MsPerMinute == 60000
\* postContent.slice(0, 50) in the cache key
KeySliceLen == 50
\* postContent.slice(0, 100) in the default analysis
FocalSliceLen == 100

----------------------------------------------------------------------------
\* Bounds of the model

\* invocation slots of generateComment that may be in flight together
NumReq == 2
\* saturation of the history counter `generated`
MaxGenerated == 11

Req == 1..NumReq

----------------------------------------------------------------------------
\* Small helpers

Min2(a, b) == IF a <= b THEN a ELSE b

\* Math.ceil(n / d) for n >= 0, d > 0
CeilDiv(n, d) == (n + d - 1) \div d

\* s.slice(0, n)
Slice(s, n) == SubSeq(s, 1, Min2(n, Len(s)))

\* the letters a to z, in the order of their character codes
Alphabet ==
    <<"a", "b", "c", "d", "e", "f", "g", "h", "i", "j", "k", "l", "m",
      "n", "o", "p", "q", "r", "s", "t", "u", "v", "w", "x", "y", "z">>
\* the digits 0 to 9, in the order of their character codes
Numerals == <<"0", "1", "2", "3", "4", "5", "6", "7", "8", "9">>
\* the capital letters the modelled texts use
Capitals == {"A", "D", "T"}

\* characters \w matches (\W does not), among the characters the modelled
\* texts use
WordChars ==
    {Alphabet[i] : i \in DOMAIN Alphabet} \cup {Numerals[i] : i \in DOMAIN Numerals}
        \cup Capitals \cup {"_"}

\* s.replace(/\W/g, '')
StripNonWord(s) == SelectSeq(s, LAMBDA c: c \in WordChars)

\* whitespace characters String.prototype.trim removes
Blank == {" ", "nl"}

RECURSIVE TrimLeft(_)
TrimLeft(s) ==
    IF s # <<>> /\ Head(s) \in Blank THEN TrimLeft(Tail(s)) ELSE s

RECURSIVE TrimRight(_)
TrimRight(s) ==
    IF s # <<>> /\ s[Len(s)] \in Blank
    THEN TrimRight(SubSeq(s, 1, Len(s) - 1))
    ELSE s

\* s.trim()
Trim(s) == TrimRight(TrimLeft(s))

----------------------------------------------------------------------------
\* Inputs

\* a post content longer than the 50 characters the cache key keeps
LongContent == [i \in 1..(KeySliceLen + 2) |-> IF i <= KeySliceLen THEN "x" ELSE "b"]

\* GENERATE_COMMENT messages: postContent as characters, authorName
PostA == [authorName |-> "jane", postContent |-> <<"h", "i">>]
PostB == [authorName |-> "jane", postContent |-> <<"h", "i", "!">>]
PostC == [authorName |-> "omar", postContent |-> LongContent]

\* a post longer than the focal point of the fallback analysis
LongerContent == [i \in 1..120 |-> IF i <= 100 THEN "x" ELSE "b"]
PostD == [authorName |-> "dana", postContent |-> LongerContent]

\* message.vibe: absent (<<>>) or one record
NoVibe == <<>>
SomeVibe == <<[label |-> "celebrate", prompt |-> "be festive"]>>
OtherVibe == <<[label |-> "question", prompt |-> "ask something"]>>

\* settings records the options page can save
KeyedSettings == [llmProvider |-> "openai", apiKey |-> "sk", maxTokens |-> 500]
\* DEFAULT_SETTINGS
DefaultSettings == [llmProvider |-> "openai", apiKey |-> "", maxTokens |-> 500]

\* Stage-1 provider texts, as tokens: a JSON document, the same document in a
\* markdown fence ("fence-json" and "fence" stand for the fence marks, "nl"
\* for a line break), and text that is no JSON
AnalysisDoc == [focalPoint |-> <<"f">>, recommendedTone |-> "supportive"]
AnalysisTexts ==
    { <<"{doc}">>, <<"fence-json", "nl", "{doc}", "nl", "fence">>, <<"sorry">> }

\* Stage-2 provider texts, as characters
CommentTexts == { <<" ", "a", "nl">>, <<"b">> }

\* errors callLLM throws
ErrNoKey == "API key not configured. Please set it in extension options."
ErrAuth == "LLM API error: 401"
ErrServer == "LLM API error: 500"
ErrOffscreen == "Offscreen AI Error"
ErrPuter == "Puter.js must be executed from content script via Main World Bridge"

----------------------------------------------------------------------------
\* Service worker: rate limiting

\* data.timestamps.filter(ts => ts > windowStart)
Recent(ts, t) == SelectSeq(ts, LAMBDA x: x > t - WindowMs)

\* checkRateLimit() with <= for <: one generation more passes the gate
CheckRateLimitOffByOne(ts, t) ==
    LET recentTimestamps == Recent(ts, t) IN
    [ allowed   |-> Len(recentTimestamps) <= MaxCommentsPerHour,
      remaining |-> MaxCommentsPerHour - Len(recentTimestamps),
      resetIn   |-> IF Len(recentTimestamps) > 0
                    THEN CeilDiv(recentTimestamps[1] + WindowMs - t, MsPerMinute)
                    ELSE 0 ]

\* checkRateLimit(): the status computed from the stored timestamps at time t
CheckRateLimit(ts, t) ==
    LET recentTimestamps == Recent(ts, t) IN
    [ allowed   |-> Len(recentTimestamps) < MaxCommentsPerHour,
      remaining |-> MaxCommentsPerHour - Len(recentTimestamps),
      resetIn   |-> IF Len(recentTimestamps) > 0
                    THEN CeilDiv(recentTimestamps[1] + WindowMs - t, MsPerMinute)
                    ELSE 0 ]

\* recordCommentGeneration() without the push
RecordTimestampsNoPush(ts, t) == Recent(ts, t)

\* recordCommentGeneration(): the timestamps it saves, from the ones it read
RecordTimestamps(ts, t) == Append(Recent(ts, t), t)

----------------------------------------------------------------------------
\* AntiDetect: rate and cooldown check

SeqMin(s) == CHOOSE x \in {s[i] : i \in DOMAIN s} : \A j \in DOMAIN s : x <= s[j]
SeqMax(s) == CHOOSE x \in {s[i] : i \in DOMAIN s} : \A j \in DOMAIN s : x >= s[j]

\* timeSinceLastComment < minTimeBetweenComments, for the last recorded generation
TooSoon(ts, t) ==
    /\ Recent(ts, t) # <<>>
    /\ t - SeqMax(Recent(ts, t)) < MinTimeBetweenComments

\* a check that looks at the cooldown before the hourly limit
ADCheckCooldownFirst(ts, t) ==
    LET recentTimestamps == Recent(ts, t) IN
    IF TooSoon(ts, t)
    THEN [ allowed |-> FALSE, reason |-> "Too soon after last comment",
           resetIn |-> 0,
           waitSeconds |->
               CeilDiv(MinTimeBetweenComments - (t - SeqMax(recentTimestamps)), 1000),
           remaining |-> MaxCommentsPerHour - Len(recentTimestamps) ]
    ELSE IF Len(recentTimestamps) >= MaxCommentsPerHour
    THEN [ allowed |-> FALSE, reason |-> "Hourly limit reached",
           resetIn |-> CeilDiv(SeqMin(recentTimestamps) + WindowMs - t, MsPerMinute),
           waitSeconds |-> 0, remaining |-> 0 ]
    ELSE [ allowed |-> TRUE, reason |-> "", resetIn |-> 0, waitSeconds |-> 0,
           remaining |-> MaxCommentsPerHour - Len(recentTimestamps) ]
\* AntiDetect.checkRateLimit(); waitSeconds and resetIn are 0 where the code
\* leaves the field out
ADCheckRateLimit(ts, t) ==
    LET recentTimestamps == Recent(ts, t) IN
    IF Len(recentTimestamps) >= MaxCommentsPerHour
    THEN [ allowed |-> FALSE, reason |-> "Hourly limit reached",
           resetIn |-> CeilDiv(SeqMin(recentTimestamps) + WindowMs - t, MsPerMinute),
           waitSeconds |-> 0, remaining |-> 0 ]
    ELSE IF TooSoon(ts, t)
    THEN [ allowed |-> FALSE, reason |-> "Too soon after last comment",
           resetIn |-> 0,
           waitSeconds |->
               CeilDiv(MinTimeBetweenComments - (t - SeqMax(recentTimestamps)), 1000),
           remaining |-> MaxCommentsPerHour - Len(recentTimestamps) ]
    ELSE [ allowed |-> TRUE, reason |-> "", resetIn |-> 0, waitSeconds |-> 0,
           remaining |-> MaxCommentsPerHour - Len(recentTimestamps) ]

\* no AntiDetect.checkRateLimit call has just returned
NoCheck == [ allowed |-> TRUE, reason |-> "none", resetIn |-> 0, waitSeconds |-> 0,
             remaining |-> 0 ]

\* no AntiDetect.runFullCheck call has just returned
NoFull == [ made |-> FALSE ]

\* no message has been received
NoMessage == [ type |-> "none" ]

----------------------------------------------------------------------------
\* Comment history

\* comments.slice(0, 100) in addCommentToHistory
HistoryCap == 100
\* .slice(0, 20) in getRecentComments
RecentLimit == 20

\* StorageService.addCommentToHistory(comment): the list it saves.  No code of
\* the repository calls it.
AddCommentToHistory(history, comment, t) ==
    Slice(<<[text |-> comment, timestamp |-> t]>> \o history, HistoryCap)

\* AntiDetect.getRecentComments()
GetRecentComments(history) == Slice(history, RecentLimit)

----------------------------------------------------------------------------
\* Service worker: cache key and cache test

\* `c_${authorName}_${postContent.slice(0, 50).replace(/\W/g, '')}`
CacheKey(post) ==
    <<"c", post.authorName, StripNonWord(Slice(post.postContent, KeySliceLen))>>

\* a cache test that lets an entry live two minutes past the day
CacheFreshTooLong(entry, t) == t - entry.timestamp < CacheTtlMs + 2 * MsPerMinute
\* Date.now() - cachedFn.timestamp < 24 * 60 * 60 * 1000
CacheFresh(entry, t) == t - entry.timestamp < CacheTtlMs

\* a cache test that does not look at the vibe
CacheHitAnyVibe(cache, post, vibe, t) ==
    /\ CacheKey(post) \in DOMAIN cache
    /\ CacheFresh(cache[CacheKey(post)], t)
\* cachedFn && fresh && !vibe: generateComment answers from the cache
CacheHit(cache, post, vibe, t) ==
    /\ CacheKey(post) \in DOMAIN cache
    /\ CacheFresh(cache[CacheKey(post)], t)
    /\ vibe = NoVibe

\* a setCache that keeps the entry a key already has
SetCacheOnce(cache, key, value, t) ==
    [k \in DOMAIN cache \cup {key} |->
        IF k \in DOMAIN cache THEN cache[k] ELSE [value |-> value, timestamp |-> t]]
\* setCache(key, value): the cache object it saves, from the one it read
SetCache(cache, key, value, t) ==
    [k \in DOMAIN cache \cup {key} |->
        IF k = key THEN [value |-> value, timestamp |-> t] ELSE cache[k]]

EmptyCache == [k \in {} |-> 0]

\* what CacheService.get() returns: null (hit FALSE) or {comment, fromCache: true, hash}.
\* age is a history field, the age of the entry get() found, -1 without one.
NoGet == [called |-> FALSE, hit |-> FALSE, comment |-> <<>>, hash |-> 0, age |-> -1]
Null(h, age) == [called |-> TRUE, hit |-> FALSE, comment |-> <<>>, hash |-> h, age |-> age]
Cached(h, comment, age) ==
    [called |-> TRUE, hit |-> TRUE, comment |-> comment, hash |-> h, age |-> age]
\* no CacheService.set has just returned
NoSet == [called |-> FALSE, hash |-> 0, response |-> <<>>]

----------------------------------------------------------------------------
\* Service worker: provider calls as generateComment sees them

RemoteProvider(s) == s.llmProvider \notin {"nano", "puter"}

\* a callLLM without the key test
CallLLMKeyless(s, texts) ==
    { [ok |-> TRUE, text |-> t, error |-> ""] : t \in texts }
        \cup { [ok |-> FALSE, text |-> <<>>, error |-> e] : e \in {ErrAuth, ErrServer} }
\* callLLM(messages, settings): what one call can return or throw.  The
\* missing-key test comes before any request; 'nano' is answered by the
\* offscreen document and 'puter' throws.
CallLLM(s, texts) ==
    IF s.apiKey = "" /\ RemoteProvider(s)
    THEN { [ok |-> FALSE, text |-> <<>>, error |-> ErrNoKey] }
    ELSE IF s.llmProvider = "puter"
    THEN { [ok |-> FALSE, text |-> <<>>, error |-> ErrPuter] }
    ELSE IF s.llmProvider = "nano"
    THEN { [ok |-> TRUE, text |-> t, error |-> ""] : t \in texts }
         \cup { [ok |-> FALSE, text |-> <<>>, error |-> ErrOffscreen] }
    ELSE { [ok |-> TRUE, text |-> t, error |-> ""] : t \in texts }
         \cup { [ok |-> FALSE, text |-> <<>>, error |-> e] : e \in {ErrAuth, ErrServer} }

\* analysisResponse.replace(/```json|```/g, '').trim()
CleanJson(text) == Trim(SelectSeq(text, LAMBDA tok: tok \notin {"fence-json", "fence"}))

\* a fallback analysis that takes the whole post as focal point
DefaultAnalysisWhole(post) ==
    [focalPoint |-> post.postContent, recommendedTone |-> "professional"]
\* the analysis of the catch blocks
DefaultAnalysis(post) ==
    [focalPoint |-> Slice(post.postContent, FocalSliceLen),
     recommendedTone |-> "professional"]

\* how the Stage-1 call ended: parsed, not parsed, or the error it threw
Stage1Outcome(o) ==
    IF ~o.ok THEN o.error
    ELSE IF CleanJson(o.text) = <<"{doc}">> THEN "json" ELSE "text"

\* the analysis Stage 1 ends with: JSON.parse of the cleaned text, or the default
\* when parsing throws or the call threw
AnalysisOf(o, post) ==
    IF o.ok /\ CleanJson(o.text) = <<"{doc}">> THEN AnalysisDoc ELSE DefaultAnalysis(post)

----------------------------------------------------------------------------
\* generateComment invocations

\* the values generateComment returns
Blocked(status) ==
    [success |-> FALSE, comment |-> <<>>, analysis |-> AnalysisDoc,
     rateLimit |-> status, error |-> "Rate limit reached."]
Failed(message) ==
    [success |-> FALSE, comment |-> <<>>, analysis |-> AnalysisDoc,
     rateLimit |-> CheckRateLimit(<<>>, 0), error |-> message]
FinalResponse(comment, analysis, status) ==
    [success |-> TRUE, comment |-> comment, analysis |-> analysis,
     rateLimit |-> status, error |-> ""]

NoResult == Failed("")

\* a slot with no invocation in it.  via, rl0, cache0, soon, s1 and trace are
\* history fields: the way the invocation ended, the stored state when it
\* started, whether it started less than 30 s after the last recorded
\* generation, how the Stage-1 call ended ("json", "text" or the error thrown;
\* kept until the result is built) and the steps taken so far.
IdleReq ==
    [ pc |-> "idle", post |-> PostA, vibe |-> NoVibe, settings |-> DefaultSettings,
      analysis |-> AnalysisDoc, comment |-> <<>>, final |-> NoResult,
      pendCache |-> EmptyCache, pendRate |-> <<>>,
      result |-> NoResult, via |-> "none",
      rl0 |-> <<>>, cache0 |-> EmptyCache, soon |-> FALSE,
      s1 |-> "none", trace |-> <<>> ]

\* the step of generateComment a position stands for
StepName(pc) ==
    CASE pc \in {"idle", "done"} -> <<"gate">>
      [] pc = "lookup" -> <<"cache">>
      [] pc = "stage1" -> <<"analyze">>
      [] pc = "stage2" -> <<"generate">>
      [] OTHER -> <<>>

\* the invocation in slot r returns `result`
Return(r, result, via) ==
    req' = [req EXCEPT ![r] =
              [IdleReq EXCEPT !.pc = "done", !.post = req[r].post,
                              !.vibe = req[r].vibe, !.result = result, !.via = via,
                              !.rl0 = req[r].rl0, !.cache0 = req[r].cache0,
                              !.soon = req[r].soon, !.s1 = req[r].s1,
                              !.trace = req[r].trace \o StepName(req[r].pc)]]

Goto(r, pc) ==
    req' = [req EXCEPT ![r].pc = pc, ![r].trace = @ \o StepName(req[r].pc)]

\* a gate that records a generation for every request it sees
StartRecording(r, posts, vibes, stored) ==
    /\ req[r].pc \in {"idle", "done"}
    /\ \E post \in posts, vibe \in vibes, s \in stored :
         LET status == CheckRateLimit(rateLimit, now)
             started == [IdleReq EXCEPT !.pc = "lookup", !.post = post, !.vibe = vibe,
                                        !.settings = s, !.rl0 = rateLimit,
                                        !.cache0 = responseCache,
                                        !.soon = TooSoon(rateLimit, now),
                                        !.trace = StepName(req[r].pc)]
         IN  req' = [req EXCEPT ![r] =
                       IF ~status.allowed
                       THEN [started EXCEPT !.pc = "done", !.settings = DefaultSettings,
                                            !.result = Blocked(status), !.via = "blocked"]
                       ELSE started]
    /\ rateLimit' = RecordTimestamps(rateLimit, now)
    /\ UNCHANGED <<now, responseCache, commentHistory, generated>>
    /\ adResult' = NoCheck
    /\ UNCHANGED <<uiVars, pageVars, driver, cacheVars, call>>

\* onMessage GENERATE_COMMENT: getSettings() (the record the options page stored
\* last, DEFAULT_SETTINGS before any save) and 1. Check rate limit
Start(r, posts, vibes, stored) ==
    /\ req[r].pc \in {"idle", "done"}
    /\ \E post \in posts, vibe \in vibes, s \in stored :
         LET status == CheckRateLimit(rateLimit, now)
             started == [IdleReq EXCEPT !.pc = "lookup", !.post = post, !.vibe = vibe,
                                        !.settings = s, !.rl0 = rateLimit,
                                        !.cache0 = responseCache,
                                        !.soon = TooSoon(rateLimit, now),
                                        !.trace = StepName(req[r].pc)]
         IN  req' = [req EXCEPT ![r] =
                       IF ~status.allowed
                       THEN [started EXCEPT !.pc = "done", !.settings = DefaultSettings,
                                            !.result = Blocked(status), !.via = "blocked"]
                       ELSE started]
    /\ UNCHANGED <<now, rateLimit, responseCache, commentHistory, generated>>
    /\ adResult' = NoCheck
    /\ UNCHANGED <<uiVars, pageVars, driver, cacheVars, call>>

\* a cache check that counts a hit as a generation
LookupCounting(r) ==
    /\ req[r].pc = "lookup"
    /\ IF CacheHit(responseCache, req[r].post, req[r].vibe, now)
       THEN /\ Return(r, responseCache[CacheKey(req[r].post)].value, "cache")
            /\ rateLimit' = RecordTimestamps(rateLimit, now)
       ELSE /\ Goto(r, "stage1")
            /\ UNCHANGED rateLimit
    /\ UNCHANGED <<now, responseCache, commentHistory, generated>>
    /\ adResult' = NoCheck
    /\ UNCHANGED <<uiVars, pageVars, driver, cacheVars, call>>

\* 2. Check Cache
Lookup(r) ==
    /\ req[r].pc = "lookup"
    /\ IF CacheHit(responseCache, req[r].post, req[r].vibe, now)
       THEN Return(r, responseCache[CacheKey(req[r].post)].value, "cache")
       ELSE Goto(r, "stage1")
    /\ UNCHANGED <<now, rateLimit, responseCache, commentHistory, generated>>
    /\ adResult' = NoCheck
    /\ UNCHANGED <<uiVars, pageVars, driver, cacheVars, call>>

\* Stage 1 with the generation recorded before the provider answered
Stage1Recording(r, texts) ==
    /\ req[r].pc = "stage1"
    /\ \E o \in CallLLM(req[r].settings, texts) :
         req' = [req EXCEPT ![r].pc = "stage2",
                            ![r].analysis = AnalysisOf(o, req[r].post),
                            ![r].s1 = Stage1Outcome(o),
                            ![r].trace = @ \o StepName("stage1")]
    /\ rateLimit' = RecordTimestamps(rateLimit, now)
    /\ UNCHANGED <<now, responseCache, commentHistory, generated>>
    /\ adResult' = NoCheck
    /\ UNCHANGED <<uiVars, pageVars, driver, cacheVars, call>>

\* Stage 1: Analyze post.  Whatever the call throws is caught here.
Stage1(r, texts) ==
    /\ req[r].pc = "stage1"
    /\ \E o \in CallLLM(req[r].settings, texts) :
         req' = [req EXCEPT ![r].pc = "stage2",
                            ![r].analysis = AnalysisOf(o, req[r].post),
                            ![r].s1 = Stage1Outcome(o),
                            ![r].trace = @ \o StepName("stage1")]
    /\ UNCHANGED <<now, rateLimit, responseCache, commentHistory, generated>>
    /\ adResult' = NoCheck
    /\ UNCHANGED <<uiVars, pageVars, driver, cacheVars, call>>

\* Stage 2: Generate comment.  A throw goes to the outer catch.
Stage2(r, texts) ==
    /\ req[r].pc = "stage2"
    /\ \E o \in CallLLM(req[r].settings, texts) :
         IF o.ok
         THEN req' = [req EXCEPT ![r].pc = "status", ![r].comment = Trim(o.text),
                                 ![r].settings = DefaultSettings,
                                 ![r].trace = @ \o StepName("stage2")]
         ELSE Return(r, Failed(o.error), "failed")
    /\ UNCHANGED <<now, rateLimit, responseCache, commentHistory, generated>>
    /\ adResult' = NoCheck
    /\ UNCHANGED <<uiVars, pageVars, driver, cacheVars, call>>

\* finalResponse, with rateLimit: await checkRateLimit()
Status(r) ==
    /\ req[r].pc = "status"
    /\ req' = [req EXCEPT ![r].pc = "cacheGet", ![r].s1 = "none",
                          ![r].final = FinalResponse(req[r].comment, req[r].analysis,
                                                     CheckRateLimit(rateLimit, now))]
    /\ UNCHANGED <<now, rateLimit, responseCache, commentHistory, generated>>
    /\ adResult' = NoCheck
    /\ UNCHANGED <<uiVars, pageVars, driver, cacheVars, call>>

\* setCache: getCache() and the assignment cache[key] = { value, timestamp }
CacheGet(r) ==
    /\ req[r].pc = "cacheGet"
    /\ req' = [req EXCEPT ![r].pc = "cacheSet",
                          ![r].pendCache = SetCache(responseCache, CacheKey(req[r].post),
                                                    req[r].final, now)]
    /\ UNCHANGED <<now, rateLimit, responseCache, commentHistory, generated>>
    /\ adResult' = NoCheck
    /\ UNCHANGED <<uiVars, pageVars, driver, cacheVars, call>>

\* setCache: chrome.storage.local.set({ responseCache: cache })
CacheSet(r) ==
    /\ req[r].pc = "cacheSet"
    /\ responseCache' = req[r].pendCache
    /\ req' = [req EXCEPT ![r].pc = "rateGet", ![r].pendCache = EmptyCache]
    /\ UNCHANGED <<now, rateLimit, commentHistory, generated>>
    /\ adResult' = NoCheck
    /\ UNCHANGED <<uiVars, pageVars, driver, cacheVars, call>>

\* recordCommentGeneration: getRateLimitData(), filter and push
RateGet(r) ==
    /\ req[r].pc = "rateGet"
    /\ req' = [req EXCEPT ![r].pc = "rateSet",
                          ![r].pendRate = RecordTimestamps(rateLimit, now)]
    /\ UNCHANGED <<now, rateLimit, responseCache, commentHistory, generated>>
    /\ adResult' = NoCheck
    /\ UNCHANGED <<uiVars, pageVars, driver, cacheVars, call>>

\* recordCommentGeneration: saveRateLimitData(data); then return finalResponse
RateSet(r) ==
    /\ req[r].pc = "rateSet"
    /\ rateLimit' = req[r].pendRate
    /\ generated' = Min2(generated + 1, MaxGenerated)
    /\ Return(r, req[r].final, "provider")
    /\ UNCHANGED <<now, responseCache, commentHistory>>
    /\ adResult' = NoCheck
    /\ UNCHANGED <<uiVars, pageVars, driver, cacheVars, call>>

\* every step of generateComment after the message arrived
Step(r, analysisTexts, commentTexts) ==
    \/ Lookup(r)
    \/ Stage1(r, analysisTexts)
    \/ Stage2(r, commentTexts)
    \/ Status(r)
    \/ CacheGet(r)
    \/ CacheSet(r)
    \/ RateGet(r)
    \/ RateSet(r)

\* the clock moves on to a later instant of `instants`
Tick(instants) ==
    /\ \E t \in instants : t > now /\ now' = t
    /\ UNCHANGED <<rateLimit, responseCache, commentHistory, req, generated>>
    /\ adResult' = NoCheck
    /\ getResult' = NoGet
    /\ repeated' = FALSE
    /\ lastSet' = NoSet
    /\ fullResult' = NoFull
    /\ UNCHANGED <<pageVars, driver, semCache, inserted, touched, firstAt, call>>
    /\ UNCHANGED <<wordLimits, panel, inbox, offscreen, bridge>>

\* a caller runs AntiDetect.checkRateLimit() on the stored timestamps, between
\* generateComment invocations; the value it returns is in adResult until the
\* next step
ADCheck ==
    /\ \A r \in Req : req[r].pc \in {"idle", "done"}
    /\ adResult' = ADCheckRateLimit(rateLimit, now)
    /\ UNCHANGED <<now, rateLimit, responseCache, commentHistory, req, generated>>
    /\ UNCHANGED <<uiVars, pageVars, driver, cacheVars, call>>

----------------------------------------------------------------------------
\* CacheService (src/services/storage.js): configuration and texts

\* config.maxEntries
MaxEntries == 100
\* (max 5 variations)
MaxResponses == 5

\* most CacheService.set calls of a run that visits the expiry instants
MaxSets == 2
\* fingerprints CacheService.set is given while the cache is filled
NumHashes == 101
\* last clock reading of a run that fills the cache
FillHorizon == 86400200

\* Comment texts are sequences of tokens: a word, one punctuation character,
\* one whitespace character, or a phrase the code adds as a whole.
Terminal == {".", "!", "?"}

\* stored responses: a word alone; two sentences with a word of `subs`
ReplyOk == <<"ok">>
ReplyGreat == <<"Great", " ", "point", ".", " ", "Thanks", "!">>
Replies == {ReplyOk, ReplyGreat}

\* toLowerCase() on the words of the replies
ToLower(tok) ==
    CASE tok = "Great" -> "great"
      [] tok = "Thanks" -> "thanks"
      [] OTHER -> tok

\* index of the first token at or after i that is not whitespace
RECURSIVE SkipBlank(_, _)
SkipBlank(t, i) ==
    IF i <= Len(t) /\ t[i] \in Blank THEN SkipBlank(t, i + 1) ELSE i

\* t.split(/(?<=[.!?])\s+/): cur is the sentence being read
RECURSIVE SplitSentences(_, _, _)
SplitSentences(t, i, cur) ==
    IF i > Len(t) THEN <<cur>>
    ELSE IF t[i] \in Blank /\ cur # <<>> /\ cur[Len(cur)] \in Terminal
         THEN <<cur>> \o SplitSentences(t, SkipBlank(t, i), <<>>)
         ELSE SplitSentences(t, i + 1, Append(cur, t[i]))

\* sentences.join(' ')
RECURSIVE JoinSentences(_)
JoinSentences(ss) ==
    IF Len(ss) = 1 THEN ss[1] ELSE ss[1] \o <<" ">> \o JoinSentences(Tail(ss))

Openings ==
    << <<"Interesting point - ">>, <<"This resonates - ">>,
       <<"I've been thinking about this - ">>, <<"You know, ">>, <<>> >>

\* Rephrase opening
RephraseOpening(t, k) ==
    LET sentences == SplitSentences(t, 1, <<>>)
        first == sentences[1]
        lowered == IF first = <<>> THEN first
                   ELSE <<ToLower(first[1])>> \o Tail(first)
    IN  IF Len(sentences) < 2 THEN t
        ELSE JoinSentences([sentences EXCEPT ![1] = Openings[k] \o lowered])

Additions ==
    << <<" Curious to hear more.">>, <<" Would love to discuss further.">>,
       <<" Thanks for sharing this perspective.">>, <<>> >>

\* Add/remove trailing thought
TrailingThought(t, k) ==
    (IF t # <<>> /\ t[Len(t)] \in {".", "!"} THEN SubSeq(t, 1, Len(t) - 1) ELSE t)
        \o Additions[k]

Subs ==
    << [word |-> "really", alternatives |-> <<"genuinely", "truly", "particularly">>],
       [word |-> "think", alternatives |-> <<"believe", "feel", "sense">>],
       [word |-> "important", alternatives |-> <<"crucial", "vital", "key">>],
       [word |-> "interesting",
        alternatives |-> <<"fascinating", "compelling", "intriguing">>],
       [word |-> "great", alternatives |-> <<"excellent", "solid", "strong">>] >>

\* Slight word substitutions: the first word of subs the text has, every
\* occurrence of it, whatever its case
Substitute(t, k) ==
    LET has(w) == \E i \in 1..Len(t) : ToLower(t[i]) = Subs[w].word
        found == {w \in 1..Len(Subs) : has(w)}
        w1 == CHOOSE w \in found : \A v \in found : w <= v
    IN  IF found = {} THEN t
        ELSE [i \in 1..Len(t) |->
                IF ToLower(t[i]) = Subs[w1].word THEN Subs[w1].alternatives[k]
                ELSE t[i]]

\* applyVariation(text): what one random variation can return
ApplyVariation(t) ==
    {RephraseOpening(t, k) : k \in 1..Len(Openings)}
        \cup {TrailingThought(t, k) : k \in 1..Len(Additions)}
        \cup {Substitute(t, k) : k \in 1..3}

----------------------------------------------------------------------------
\* CacheService: cache operations.  The cache object is the sequence of its
\* entries in property order, [hash, responses, timestamp] each; hash is
\* generateSemanticHash(postData) of the post the call is given.

\* position of the entry for hash h, 0 when cache[hash] is undefined
Find(cache, h) ==
    IF \E i \in 1..Len(cache) : cache[i].hash = h
    THEN CHOOSE i \in 1..Len(cache) : cache[i].hash = h
    ELSE 0

\* delete cache[hash]
Remove(cache, i) == SubSeq(cache, 1, i - 1) \o SubSeq(cache, i + 1, Len(cache))

\* now - timestamp > this.config.ttlMs
Expired(entry, t) == t - entry.timestamp > CacheTtlMs

\* entries.sort((a, b) => b[1].timestamp - a[1].timestamp), a stable sort
SortNewestFirst(entries) ==
    LET n == Len(entries)
        before(j, i) ==
            \/ entries[j].timestamp > entries[i].timestamp
            \/ entries[j].timestamp = entries[i].timestamp /\ j < i
        rank == [i \in 1..n |-> 1 + Cardinality({j \in 1..n : before(j, i)})]
    IN  [p \in 1..n |-> entries[CHOOSE i \in 1..n : rank[i] = p]]

\* cleanup that keeps the first maxEntries entries without sorting them
CleanupUnsorted(cache, t) ==
    SelectSeq(IF Len(cache) > MaxEntries
              THEN SubSeq(cache, 1, MaxEntries)
              ELSE cache,
              LAMBDA e : ~Expired(e, t))
\* cleanup(cache): the newest maxEntries entries, then those not expired
Cleanup(cache, t) ==
    SelectSeq(IF Len(cache) > MaxEntries
              THEN SubSeq(SortNewestFirst(cache), 1, MaxEntries)
              ELSE cache,
              LAMBDA e : ~Expired(e, t))

\* a set() that appends however many responses the entry holds
PutUncapped(cache, h, response, t) ==
    LET i == Find(cache, h)
    IN  IF i # 0
        THEN [cache EXCEPT ![i] =
                [hash |-> h, responses |-> Append(cache[i].responses, response),
                 timestamp |-> t]]
        ELSE Append(cache, [hash |-> h, responses |-> <<response>>, timestamp |-> t])
\* set(): the cache object after the entry for hash h took the response
Put(cache, h, response, t) ==
    LET i == Find(cache, h)
    IN  IF i # 0
        THEN [cache EXCEPT ![i] =
                [hash |-> h,
                 responses |-> IF Len(cache[i].responses) < MaxResponses
                               THEN Append(cache[i].responses, response)
                               ELSE cache[i].responses,
                 timestamp |-> t]]
        ELSE Append(cache, [hash |-> h, responses |-> <<response>>, timestamp |-> t])

\* CacheService.get(postData) for a post with one of the fingerprints
CacheServiceGet(hashes) ==
    /\ \E h \in hashes :
         LET i == Find(semCache, h)
         IN  IF i = 0
             THEN /\ getResult' = Null(h, -1)
                  /\ repeated' = FALSE
                  /\ UNCHANGED semCache
             ELSE IF Expired(semCache[i], now)
             THEN /\ semCache' = Remove(semCache, i)
                  /\ getResult' = Null(h, now - semCache[i].timestamp)
                  /\ repeated' = FALSE
             ELSE \E j \in 1..Len(semCache[i].responses) :
                  \E comment \in {semCache[i].responses[j]}
                                   \cup ApplyVariation(semCache[i].responses[j]) :
                    /\ getResult' = Cached(h, comment, now - semCache[i].timestamp)
                    /\ repeated' = (getResult.hit /\ getResult.hash = h
                                      /\ getResult.comment = comment)
                    /\ UNCHANGED semCache
    /\ UNCHANGED <<now, rateLimit, responseCache, commentHistory, req, generated>>
    /\ lastSet' = NoSet
    /\ UNCHANGED <<uiVars, pageVars, adResult, driver, inserted, touched, firstAt, call>>

\* CacheService.set(postData, response), `delay` ms after the call before it.
\* Fingerprints are numbered in the order set() is first given them.
CacheServiceSet(hashes, responses, delays) ==
    /\ \E h \in hashes, response \in responses, d \in delays :
         /\ h <= inserted + 1
         /\ now' = now + d
         /\ semCache' = Cleanup(Put(semCache, h, response, now + d), now + d)
         /\ inserted' = IF h = inserted + 1 THEN inserted + 1 ELSE inserted
         /\ touched' = IF h = inserted + 1 THEN touched ELSE touched + 1
         /\ firstAt' = IF firstAt = -1 THEN now + d ELSE firstAt
         /\ lastSet' = [called |-> TRUE, hash |-> h, response |-> response]
    /\ getResult' = NoGet
    /\ repeated' = FALSE
    /\ UNCHANGED <<rateLimit, responseCache, commentHistory, req, generated>>
    /\ UNCHANGED <<uiVars, pageVars, adResult, driver, call>>

----------------------------------------------------------------------------
\* callLLM (service-worker.js 126-282): HTTP responses and what is read in them

MaxRetries == 3
\* let waitTime = 5; // Default 5s
DefaultWaitS == 5
\* waitTime * 1000 + 1000
WaitMarginMs == 1000
\* 1000 * Math.pow(2, retryCount)
BackoffBaseMs == 1000
\* the one 30 s timer of the repository: content.js, local-provider bridge
BridgeTimeoutMs == 30000

Digits == {"0", "1", "2", "3", "4", "5", "6", "7", "8", "9"}
DigitVal(c) ==
    CASE c = "0" -> 0 [] c = "1" -> 1 [] c = "2" -> 2 [] c = "3" -> 3 [] c = "4" -> 4
      [] c = "5" -> 5 [] c = "6" -> 6 [] c = "7" -> 7 [] c = "8" -> 8 [] c = "9" -> 9

\* String.prototype.includes
Includes(s, sub) ==
    \E i \in 1..(Len(s) - Len(sub) + 1) : SubSeq(s, i, i + Len(sub) - 1) = sub

\* number of digits s has from position i on
RECURSIVE DigitRun(_, _)
DigitRun(s, i) ==
    IF i <= Len(s) /\ s[i] \in Digits THEN 1 + DigitRun(s, i + 1) ELSE 0

\* value of the decimal digits s[i .. i+n-1]
RECURSIVE DigitsValue(_, _, _)
DigitsValue(s, i, n) ==
    IF n = 0 THEN 0 ELSE DigitsValue(s, i, n - 1) * 10 + DigitVal(s[i + n - 1])

\* parseInt(retryAfter, 10): -1 stands for NaN (inputs carry no sign)
ParseInt(s) ==
    LET start == SkipBlank(s, 1)
        n == DigitRun(s, start)
    IN  IF n = 0 THEN -1 ELSE DigitsValue(s, start, n)

\* the wait in ms given by errorText.match(/retry in (\d+(\.\d+)?)s/) and
\* parseFloat(match[1]) for the match that starts at i, -1 when none starts
\* there; a fraction is read to the millisecond
RetryInPhrase == <<"r", "e", "t", "r", "y", " ", "i", "n", " ">>
RetryInAt(s, i) ==
    LET d == i + Len(RetryInPhrase)
        n == DigitRun(s, d)
        dot == d + n
        f == IF dot <= Len(s) /\ s[dot] = "." THEN DigitRun(s, dot + 1) ELSE 0
        frac(k) == IF k <= f THEN DigitVal(s[dot + k]) ELSE 0
        whole == DigitsValue(s, d, n) * 1000
        ends(j) == j <= Len(s) /\ s[j] = "s"
    IN  IF i + Len(RetryInPhrase) - 1 > Len(s)
           \/ SubSeq(s, i, i + Len(RetryInPhrase) - 1) # RetryInPhrase \/ n = 0
        THEN -1
        ELSE IF f > 0 /\ ends(dot + f + 1)
        THEN whole + frac(1) * 100 + frac(2) * 10 + frac(3)
        ELSE IF ends(dot) THEN whole
        ELSE -1

\* ms of the first match in the text, -1 without a match
RetryInMs(s) ==
    LET hits == {i \in 1..Len(s) : RetryInAt(s, i) >= 0}
    IN  IF hits = {} THEN -1
        ELSE RetryInAt(s, CHOOSE i \in hits : \A j \in hits : i <= j)

\* the seconds of parseInt(retryAfter, 10) || 5
HeaderWaitS(h) == IF ParseInt(h) <= 0 THEN DefaultWaitS ELSE ParseInt(h)

\* fetch() outcomes.  net: the promise rejects; otherwise status, the
\* Retry-After header (<<>> when absent), the body text, and for a 2xx the
\* vendor layout of the JSON document and the text it holds.
NetError ==
    [net |-> TRUE, status |-> 0, retryAfter |-> <<>>, body |-> <<>>,
     layout |-> "none", text |-> <<>>]
Http(status, retryAfter, body) ==
    [net |-> FALSE, status |-> status, retryAfter |-> retryAfter, body |-> body,
     layout |-> "none", text |-> <<>>]
Ok200(layout, text) ==
    [net |-> FALSE, status |-> 200, retryAfter |-> <<>>, body |-> <<>>,
     layout |-> layout, text |-> text]

BodyOops == <<"o", "o", "p", "s">>
BodyQuota == RetryInPhrase \o <<"2", "0", "s">>
BodyQuotaFraction == RetryInPhrase \o <<"1", ".", "5", "s">>
BodyUpstream == <<"u", "p", " ", "4", "0", "1">>

\* the layout each provider's extraction reads
LayoutOf(provider) ==
    CASE provider \in {"openai", "groq"} -> "choices"
      [] provider = "gemini" -> "candidates"
      [] provider = "anthropic" -> "content"
      [] OTHER -> "unknown"

\* error messages, as token sequences
MsgNoKey == <<"API key not configured. Please set it in extension options.">>
MsgPuter == <<"Puter.js must be executed from content script via Main World Bridge">>
MsgUnsupported == <<"Unsupported LLM provider: ">>
MsgOffscreen == <<"Offscreen AI Error: ">>
MsgFetch == <<"Failed to fetch">>
MsgType == <<"Cannot read properties of undefined">>
StatusChars(status) ==
    CASE status = 401 -> <<"4", "0", "1">>
      [] status = 403 -> <<"4", "0", "3">>
      [] status = 429 -> <<"4", "2", "9">>
      [] status = 500 -> <<"5", "0", "0">>
\* `LLM API error: ${response.status} - ${errorText}`
MsgApi(resp) == <<"LLM API error: ">> \o StatusChars(resp.status) \o <<" - ">> \o resp.body

----------------------------------------------------------------------------
\* callLLM: one invocation, its recursive re-invocations included.  sent (the
\* times the HTTP requests were issued), got (the responses) and waits (the
\* delays slept, with their cause and the time they began) are history fields.

NanoSettings == [llmProvider |-> "nano", apiKey |-> "", maxTokens |-> 500]
PuterSettings == [llmProvider |-> "puter", apiKey |-> "", maxTokens |-> 500]
GeminiSettings == [llmProvider |-> "gemini", apiKey |-> "g", maxTokens |-> 500]

IdleCall ==
    [pc |-> "idle", settings |-> DefaultSettings, retryCount |-> 0,
     sent |-> <<>>, got |-> <<>>, waits |-> <<>>, wakeAt |-> 0,
     ok |-> FALSE, text |-> <<>>, error |-> <<>>]

\* the invocation throws / returns
Throw(c, msg) == [c EXCEPT !.pc = "done", !.ok = FALSE, !.error = msg]
\* a return that drops the text
ReturnsNothing(c, text) == [c EXCEPT !.pc = "done", !.ok = TRUE, !.text = <<>>]
Returns(c, text) == [c EXCEPT !.pc = "done", !.ok = TRUE, !.text = text]

\* setTimeout(r, ms) before callLLM(messages, settings, retryCount + 1)
Sleep(c, cause, ms, t) ==
    [c EXCEPT !.pc = "wait", !.wakeAt = t + ms,
              !.waits = Append(c.waits, [cause |-> cause, ms |-> ms, at |-> t])]

\* a 429 branch that never reads the response
RateLimitWaitDefault(resp) == DefaultWaitS * 1000 + WaitMarginMs
\* the wait of the 429 branch, in ms
RateLimitWaitMs(resp) ==
    (IF resp.retryAfter # <<>> THEN HeaderWaitS(resp.retryAfter) * 1000
     ELSE IF RetryInMs(resp.body) >= 0 THEN RetryInMs(resp.body)
     ELSE DefaultWaitS * 1000) + WaitMarginMs

\* a catch block that retries whatever the message says
CatchAll(c, msg, t) ==
    IF c.retryCount < MaxRetries /\ c.settings.llmProvider # "nano"
    THEN Sleep(c, "error", BackoffBaseMs * 2 ^ c.retryCount, t)
    ELSE Throw(c, msg)
\* catch (err): exponential backoff for non-auth errors, else rethrow
Catch(c, msg, t) ==
    IF /\ c.retryCount < MaxRetries
       /\ ~Includes(msg, <<"4", "0", "1">>)
       /\ ~Includes(msg, <<"4", "0", "3">>)
       /\ c.settings.llmProvider # "nano"
    THEN Sleep(c, "error", BackoffBaseMs * 2 ^ c.retryCount, t)
    ELSE Throw(c, msg)

\* the try block from the resolved or rejected fetch on
Handle(c, resp, t) ==
    IF resp.net THEN Catch(c, MsgFetch, t)
    ELSE IF resp.status # 200
    THEN IF resp.status = 429 /\ c.retryCount < MaxRetries
         THEN Sleep(c, "429", RateLimitWaitMs(resp), t)
         ELSE Catch(c, MsgApi(resp), t)
    ELSE IF resp.layout = LayoutOf(c.settings.llmProvider)
    THEN Returns(c, resp.text)
    ELSE Catch(c, MsgType, t)

\* callLLM(messages, settings): the key test and the provider switch
CallStart(stored) ==
    /\ call.pc = "idle"
    /\ \E s \in stored :
         LET c == [IdleCall EXCEPT !.settings = s]
         IN  call' =
               IF s.apiKey = "" /\ s.llmProvider \notin {"nano", "puter"}
               THEN Throw(c, MsgNoKey)
               ELSE IF s.llmProvider = "nano" THEN [c EXCEPT !.pc = "offscreen"]
               ELSE IF s.llmProvider = "puter" THEN Throw(c, MsgPuter)
               ELSE IF LayoutOf(s.llmProvider) = "unknown"
               THEN Throw(c, MsgUnsupported)
               ELSE [c EXCEPT !.pc = "fetch", !.sent = <<now>>]
    /\ UNCHANGED <<now, rateLimit, responseCache, commentHistory, req, generated>>
    /\ UNCHANGED <<uiVars, pageVars, adResult, driver, cacheVars>>

\* case 'nano': the offscreen document answers, or the sending fails; the
\* throw is outside the try block of the fetch
OffscreenAnswer(texts) ==
    /\ call.pc = "offscreen"
    /\ \/ \E t \in texts : call' = Returns(call, t)
       \/ call' = Throw(call, MsgOffscreen)
    /\ UNCHANGED <<now, rateLimit, responseCache, commentHistory, req, generated>>
    /\ UNCHANGED <<uiVars, pageVars, adResult, driver, cacheVars>>

\* the fetch of the request in flight settles
HttpAnswer(responses) ==
    /\ call.pc = "fetch"
    /\ \E resp \in responses :
         call' = Handle([call EXCEPT !.got = Append(call.got, resp)], resp, now)
    /\ UNCHANGED <<now, rateLimit, responseCache, commentHistory, req, generated>>
    /\ UNCHANGED <<uiVars, pageVars, adResult, driver, cacheVars>>

\* a timer callback that calls callLLM again with the same retryCount
RetrySameCount ==
    /\ call.pc = "wait"
    /\ LET t == IF now < call.wakeAt THEN call.wakeAt ELSE now
       IN  /\ now' = t
           /\ call' = [call EXCEPT !.pc = "fetch", !.sent = Append(call.sent, t)]
    /\ UNCHANGED <<rateLimit, responseCache, commentHistory, req, generated>>
    /\ UNCHANGED <<uiVars, pageVars, adResult, driver, cacheVars>>

\* the timer fires, not before its delay, and the next attempt is issued
Retry ==
    /\ call.pc = "wait"
    /\ LET t == IF now < call.wakeAt THEN call.wakeAt ELSE now
       IN  /\ now' = t
           /\ call' = [call EXCEPT !.pc = "fetch", !.retryCount = call.retryCount + 1,
                                   !.sent = Append(call.sent, t)]
    /\ UNCHANGED <<rateLimit, responseCache, commentHistory, req, generated>>
    /\ UNCHANGED <<uiVars, pageVars, adResult, driver, cacheVars>>

----------------------------------------------------------------------------
\* AntiDetect: similarity of a comment to the recent ones.  A comment is its
\* sequence of characters.

\* config.similarityThreshold, 0.6, in hundredths
SimilarityThresholdPct == 60

\* most entries commentHistory is given; the first MaxRelated of them may share
\* words with a candidate, the later ones push them down the list
MaxHistory == 21
MaxRelated == 2

\* toLowerCase() on one character
LowerChar(c) ==
    CASE c = "A" -> "a"
      [] c = "D" -> "d"
      [] c = "T" -> "t"
      [] OTHER -> c

\* text.toLowerCase()
ToLowerCase(t) == [i \in DOMAIN t |-> LowerChar(t[i])]

\* new Set(t.split(/\s+/)): the maximal runs without whitespace, and the empty
\* string when t is empty or begins or ends with whitespace
WordSet(t) ==
    { SubSeq(t, i, j) : <<i, j>> \in
        { ij \in (DOMAIN t) \X (DOMAIN t) :
            /\ ij[1] <= ij[2]
            /\ ij[1] = 1 \/ t[ij[1] - 1] \in Blank
            /\ ij[2] = Len(t) \/ t[ij[2] + 1] \in Blank
            /\ \A k \in ij[1]..ij[2] : t[k] \notin Blank } }
    \cup (IF t = <<>> \/ t[1] \in Blank \/ t[Len(t)] \in Blank THEN {<<>>} ELSE {})

\* AntiDetect.calculateSimilarity(text1, text2): intersection.size / union.size,
\* kept as the two sizes; the union holds at least one word
CalculateSimilarity(text1, text2) ==
    LET words1 == WordSet(ToLowerCase(text1))
        words2 == WordSet(ToLowerCase(text2))
    IN  [ shared |-> Cardinality(words1 \cap words2),
          all |-> Cardinality(words1 \cup words2) ]

\* similarity >= this.config.similarityThreshold
TooSimilarInclusive(sim) == sim.shared * 100 >= SimilarityThresholdPct * sim.all

\* similarity > this.config.similarityThreshold.  The quotient of two small
\* integers and the literal 0.6 are both correctly rounded, so the comparison
\* of the doubles is the comparison of the fractions
TooSimilar(sim) == sim.shared * 100 > SimilarityThresholdPct * sim.all

\* Math.round(similarity * 100)
MatchPct(sim) == (200 * sim.shared + sim.all) \div (2 * sim.all)

\* AntiDetect.checkSimilarityToRecent(newComment): the first recent entry that
\* is too similar decides
CheckSimilarityToRecent(history, newComment) ==
    LET recentComments == GetRecentComments(history)
        hits == { i \in DOMAIN recentComments :
                    TooSimilar(CalculateSimilarity(newComment, recentComments[i].text)) }
    IN  IF hits = {} THEN [ passed |-> TRUE ]
        ELSE LET first == CHOOSE i \in hits : \A j \in hits : i <= j
                 similarity == CalculateSimilarity(newComment, recentComments[first].text)
             IN  [ passed |-> FALSE, match |-> MatchPct(similarity),
                   similarity |-> similarity ]

\* comments: "a b c d", the same words in capitals and with two blanks, "q"
CommentAbcd == <<"a", " ", "b", " ", "c", " ", "d">>
CommentCapitals == <<"A", " ", " ", "b", " ", "c", " ", "D">>
CommentQ == <<"q">>
\* earlier comments: three of four words of "a b c d" and one other (3 of 5
\* words shared), three of its words alone (3 of 4), two of them and two
\* others (2 of 6), and one that shares nothing
EarlierAbce == <<"a", " ", "b", " ", "c", " ", "e">>
EarlierAbc == <<"a", " ", "b", " ", "c">>
EarlierAbxy == <<"a", " ", "b", " ", "x", " ", "y">>
EarlierZ == <<"z">>

NoSimilarity == [ made |-> FALSE ]

\* StorageService.addCommentToHistory(comment)
HistoryAdd(comments) ==
    /\ driver = "page"
    /\ Len(commentHistory) < MaxHistory
    /\ \E c \in comments :
          /\ Len(commentHistory) >= MaxRelated => c = EarlierZ
          /\ commentHistory' = AddCommentToHistory(commentHistory, c, now)
    /\ simResult' = NoSimilarity
    /\ fullResult' = NoFull
    /\ UNCHANGED <<now, rateLimit, responseCache, req, generated>>
    /\ UNCHANGED <<adResult, driver, cacheVars, call, fingerprints, feed, pointer>>
    /\ UNCHANGED <<wordLimits, panel, inbox, offscreen, bridge>>

\* AntiDetect.checkSimilarityToRecent(newComment) on the stored history
SimilarityCheck(comments) ==
    /\ driver = "page"
    /\ \E c \in comments :
          simResult' = [ made |-> TRUE, comment |-> c,
                         value |-> CheckSimilarityToRecent(commentHistory, c) ]
    /\ UNCHANGED <<now, rateLimit, responseCache, commentHistory, req, generated>>
    /\ UNCHANGED <<uiVars, adResult, driver, cacheVars, call, fingerprints, feed, pointer>>

----------------------------------------------------------------------------
\* CacheService: the fingerprint of a post.  Texts are sequences of UTF-16
\* code units; "hs" and "ls" are the two halves of an emoji.

\* .slice(0, 20) of the author name, .slice(0, 5) of the keywords
AuthorSliceLen == 20
KeywordLimit == 5
\* word.length > 3
KeywordOver == 3
\* content.length > 200 ? 'long' : content.length > 100 ? 'medium' : 'short'
LongOver == 200
MediumOver == 100
\* hash = hash & hash keeps 32 bits, held here as two halves of 16 bits
HalfWord == 65536
\* toString(36)
Radix == 36

\* the set stopWords of extractKeywords
StopWords ==
    { <<"t", "h", "e">>, <<"a">>, <<"a", "n">>, <<"i", "s">>,
      <<"a", "r", "e">>, <<"w", "a", "s">>, <<"w", "e", "r", "e">>,
      <<"b", "e">>, <<"b", "e", "e", "n">>, <<"b", "e", "i", "n", "g">>,
      <<"h", "a", "v", "e">>, <<"h", "a", "s">>, <<"h", "a", "d">>,
      <<"d", "o">>, <<"d", "o", "e", "s">>, <<"d", "i", "d">>,
      <<"w", "i", "l", "l">>, <<"w", "o", "u", "l", "d">>,
      <<"c", "o", "u", "l", "d">>, <<"s", "h", "o", "u", "l", "d">>,
      <<"m", "a", "y">>, <<"m", "i", "g", "h", "t">>, <<"m", "u", "s", "t">>,
      <<"a", "n", "d">>, <<"o", "r">>, <<"b", "u", "t">>, <<"i", "f">>,
      <<"t", "h", "e", "n">>, <<"e", "l", "s", "e">>, <<"w", "h", "e", "n">>,
      <<"a", "t">>, <<"b", "y">>, <<"f", "o", "r">>, <<"w", "i", "t", "h">>,
      <<"a", "b", "o", "u", "t">>, <<"t", "o">>, <<"f", "r", "o", "m">>,
      <<"i", "n">>, <<"o", "n">>, <<"o", "f">>, <<"t", "h", "a", "t">>,
      <<"t", "h", "i", "s">>, <<"i", "t">>, <<"i", "t", "s">>, <<"i">>,
      <<"y", "o", "u">>, <<"w", "e">>, <<"t", "h", "e", "y">> }

\* charCodeAt for the characters a fingerprinted string can hold
CharCode(c) ==
    IF \E i \in DOMAIN Alphabet : Alphabet[i] = c
    THEN 96 + (CHOOSE i \in DOMAIN Alphabet : Alphabet[i] = c)
    ELSE IF \E i \in DOMAIN Numerals : Numerals[i] = c
    THEN 47 + (CHOOSE i \in DOMAIN Numerals : Numerals[i] = c)
    ELSE CASE c = " " -> 32
           [] c = "nl" -> 10
           [] c = "!" -> 33
           [] c = "," -> 44
           [] c = ":" -> 58
           [] c = "A" -> 65
           [] c = "D" -> 68
           [] c = "T" -> 84
           [] c = "_" -> 95
           [] c = "|" -> 124
           [] c = "hs" -> 55357
           [] c = "ls" -> 56960

\* the order Array.prototype.sort() puts two different words in: by code units
WordBefore(v, w) ==
    \/ Len(v) < Len(w) /\ SubSeq(w, 1, Len(v)) = v
    \/ \E k \in 1..Min2(Len(v), Len(w)) :
          /\ SubSeq(v, 1, k - 1) = SubSeq(w, 1, k - 1)
          /\ CharCode(v[k]) < CharCode(w[k])

\* .sort() and the filter that drops repeated words, on the words of a set
SortWords(words) ==
    [ i \in 1..Cardinality(words) |->
        CHOOSE w \in words : Cardinality({v \in words : WordBefore(v, w)}) = i - 1 ]

\* .replace(/[^\w\s]/g, '')
StripNoise(t) == SelectSeq(t, LAMBDA c : c \in WordChars \cup Blank)

\* CacheService.extractKeywords(text)
ExtractKeywords(text) ==
    SortWords({ w \in WordSet(StripNoise(ToLowerCase(text))) :
                  Len(w) > KeywordOver /\ w \notin StopWords })

\* words.join(sep)
RECURSIVE Join(_, _)
Join(words, sep) ==
    IF words = <<>> THEN <<>>
    ELSE IF Len(words) = 1 THEN words[1]
    ELSE words[1] \o sep \o Join(Tail(words), sep)

\* buckets that tell a content of 9 characters from one of 10
LengthBucketTight(content) ==
    IF Len(content) > LongOver THEN <<"l", "o", "n", "g">>
    ELSE IF Len(content) > Len(<<"d", "a", "t", "a", " ", "t", "e", "a", "m">>)
    THEN <<"m", "e", "d", "i", "u", "m">>
    ELSE <<"s", "h", "o", "r", "t">>
\* the length bucket of a content
LengthBucket(content) ==
    IF Len(content) > LongOver THEN <<"l", "o", "n", "g">>
    ELSE IF Len(content) > MediumOver THEN <<"m", "e", "d", "i", "u", "m">>
    ELSE <<"s", "h", "o", "r", "t">>

\* elements.join('::')
SemanticString(postData) ==
    Join(<< Slice(ToLowerCase(postData.author.name), AuthorSliceLen),
            Join(Slice(ExtractKeywords(postData.content), KeywordLimit), <<"|">>),
            LengthBucket(postData.content) >>,
         <<":", ":">>)

\* hash = ((hash << 5) - hash) + char; hash = hash & hash: 31 * hash + char in
\* 32 bits, as the halves [hi, lo]
HashStep(h, char) ==
    LET low == 31 * h.lo + char
    IN  [ hi |-> (31 * h.hi + low \div HalfWord) % HalfWord, lo |-> low % HalfWord ]

\* the loop over str from position i
RECURSIVE HashFrom(_, _, _)
HashFrom(str, i, h) ==
    IF i > Len(str) THEN h ELSE HashFrom(str, i + 1, HashStep(h, CharCode(str[i])))

\* Math.abs of the signed 32-bit value: up to 2^31, as halves
Abs32(h) ==
    IF h.hi < HalfWord \div 2 THEN h
    ELSE [ hi |-> HalfWord - 1 - h.hi + (IF h.lo = 0 THEN 1 ELSE 0),
           lo |-> (HalfWord - h.lo) % HalfWord ]

\* the digits of toString(36)
Base36 == Numerals \o Alphabet

\* n.toString(36) for n >= 0 given as halves
RECURSIVE ToString36(_)
ToString36(h) ==
    LET mid == (h.hi % Radix) * HalfWord + h.lo
        quot == [ hi |-> h.hi \div Radix, lo |-> mid \div Radix ]
        digit == <<Base36[(mid % Radix) + 1]>>
    IN  IF quot.hi = 0 /\ quot.lo = 0 THEN digit ELSE ToString36(quot) \o digit

\* CacheService.generateSemanticHash(postData)
GenerateSemanticHash(postData) ==
    ToString36(Abs32(HashFrom(SemanticString(postData), 1, [hi |-> 0, lo |-> 0])))

\* author names
AuthorDana == <<"D", "a", "n", "a">>
AuthorTina == <<"T", "i", "n", "a">>

\* contents: "data team", the same with a mark or an emoji added, and a
\* content of exactly 100 characters, alone, with a mark and with an emoji
ContentPlain == <<"d", "a", "t", "a", " ", "t", "e", "a", "m">>
ContentMarked == ContentPlain \o <<"!">>
ContentEmoji == <<"d", "a", "t", "a", "hs", "ls", " ", "t", "e", "a", "m">>
ContentHundred ==
    ContentPlain \o <<" ">> \o
        [ i \in 1..(MediumOver - 10) |-> IF i % 3 = 1 THEN "i" ELSE IF i % 3 = 2 THEN "t" ELSE " " ]
ContentHundredMarked == ContentHundred \o <<"!">>
ContentHundredEmoji == ContentHundred \o <<"hs", "ls">>

PostContents ==
    { ContentPlain, ContentMarked, ContentEmoji,
      ContentHundred, ContentHundredMarked, ContentHundredEmoji }

\* postData records
HashedPosts ==
    { [ author |-> [name |-> a], content |-> c ] :
        a \in {AuthorDana, AuthorTina}, c \in PostContents }

\* CacheService.generateSemanticHash(postData) for one of the posts
Fingerprint(posts) ==
    /\ driver = "page"
    /\ \E postData \in posts :
          fingerprints' =
              <<[post |-> postData, hash |-> GenerateSemanticHash(postData)]>>
                  \o Slice(fingerprints, 1)
    /\ UNCHANGED <<now, rateLimit, responseCache, commentHistory, req, generated>>
    /\ UNCHANGED <<uiVars, adResult, driver, cacheVars, call, simResult, feed, pointer>>

----------------------------------------------------------------------------
\* Content script (src/content/content.js): the Suggest button of a feed post

\* feed posts the page shows
NumPosts == 2
FeedPosts == 1..NumPosts

\* a post that is not in the page; dwelt is a history field, the longest time
\* the pointer has stayed on the post
NoPost == [ inPage |-> FALSE, header |-> FALSE, lccEnhanced |-> FALSE,
            button |-> FALSE, dwelt |-> 0 ]
NoPointer == [ over |-> 0, since |-> 0 ]

\* injectButton(postElement): the post afterwards
InjectButton(post) ==
    IF post.lccEnhanced \/ ~post.header THEN post
    ELSE [post EXCEPT !.button = TRUE, !.lccEnhanced = TRUE]

\* setupPostTracking: a post is in the page at the initial scan, or is added
\* while the user scrolls and the MutationObserver sees it; injectButton runs
\* on it in the same task
PostAdded(headers) ==
    /\ driver = "page"
    /\ \E p \in FeedPosts, h \in headers :
          /\ ~feed[p].inPage
          /\ feed' = [feed EXCEPT ![p] =
                        InjectButton([NoPost EXCEPT !.inPage = TRUE, !.header = h])]
    /\ UNCHANGED <<now, rateLimit, responseCache, commentHistory, req, generated>>
    /\ UNCHANGED <<uiVars, adResult, driver, cacheVars, call, simResult, fingerprints, pointer>>

\* the user moves the pointer onto a post of the page; no listener of the
\* content script is registered for it
PointerEnter ==
    /\ driver = "page"
    /\ pointer.over = 0
    /\ \E p \in FeedPosts :
          /\ feed[p].inPage
          /\ pointer' = [ over |-> p, since |-> now ]
    /\ UNCHANGED <<now, rateLimit, responseCache, commentHistory, req, generated>>
    /\ UNCHANGED <<uiVars, adResult, driver, cacheVars, call, simResult, fingerprints, feed>>

\* the user moves the pointer off the post
PointerLeave ==
    /\ driver = "page"
    /\ pointer.over # 0
    /\ pointer' = NoPointer
    /\ feed' = [feed EXCEPT ![pointer.over].dwelt =
                  IF now - pointer.since > @ THEN now - pointer.since ELSE @]
    /\ UNCHANGED <<now, rateLimit, responseCache, commentHistory, req, generated>>
    /\ UNCHANGED <<uiVars, adResult, driver, cacheVars, call, simResult, fingerprints>>

----------------------------------------------------------------------------
\* AntiDetect: pattern detection and the full check (src/core/antidetect.js)

\* text.split(/\s+/): the pieces between the whitespace runs, the empty string
\* included where the text is empty or begins or ends with whitespace
RECURSIVE SplitWords(_)
SplitWords(t) ==
    IF \A k \in DOMAIN t : t[k] \notin Blank THEN <<t>>
    ELSE LET i == CHOOSE k \in DOMAIN t :
                      t[k] \in Blank /\ \A l \in 1..(k - 1) : t[l] \notin Blank
             j == CHOOSE k \in i..Len(t) :
                      /\ \A l \in i..k : t[l] \in Blank
                      /\ k = Len(t) \/ t[k + 1] \notin Blank
         IN  <<SubSeq(t, 1, i - 1)>> \o SplitWords(SubSeq(t, j + 1, Len(t)))

\* .split(/\s+/).slice(0, 3).join(' ').toLowerCase()
OpeningWords == 3
Opening(t) == ToLowerCase(Join(Slice(SplitWords(t), OpeningWords), <<" ">>))

\* /[\u{1F300}-\u{1F9FF}]|[\u{2600}-\u{26FF}]/u.test(word): the word holds an
\* emoji, here the surrogate pair "hs" "ls"
HasEmoji(word) ==
    \E k \in 1..(Len(word) - 1) : word[k] = "hs" /\ word[k + 1] = "ls"

\* AntiDetect.getEmojiPositions(text): for each word with an emoji, in order,
\* index / words.length < 0.25 -> start, > 0.75 -> end, else middle
GetEmojiPositions(text) ==
    LET words == SplitWords(text)
        n == Len(words)
        place == [i \in 1..n |->
                    IF ~HasEmoji(words[i]) THEN "none"
                    ELSE IF 4 * (i - 1) < n THEN "start"
                    ELSE IF 4 * (i - 1) > 3 * n THEN "end"
                    ELSE "middle"]
    IN  SelectSeq(place, LAMBDA x : x # "none")

\* recent entries the length and emoji tests look at, entries below which no
\* pattern is looked for, same openings and same emoji placements that make an
\* issue
PatternSample == 5
PatternMinRecent == 3
PatternRepeats == 2

\* sum of a sequence of numbers
RECURSIVE SumSeq(_)
SumSeq(s) == IF s = <<>> THEN 0 ELSE Head(s) + SumSeq(Tail(s))

\* Math.abs(newLength - avgLength) / avgLength < 0.1 with avgLength the mean
\* of the lengths, as a comparison of integers
ConsistentLength(newLength, recentLengths) ==
    LET total == SumSeq(recentLengths)
        n == Len(recentLengths)
        diff == newLength * n - total
    IN  10 * (IF diff < 0 THEN -diff ELSE diff) < total

\* AntiDetect.detectPatterns(newComment): the issues are kept as their type
\* and what their message quotes
DetectPatterns(history, newComment) ==
    LET recentComments == GetRecentComments(history)
        sample == Slice(recentComments, PatternSample)
        newOpening == Opening(newComment)
        sameOpeningCount ==
            Cardinality({ i \in DOMAIN recentComments :
                            Opening(recentComments[i].text) = newOpening })
        recentLengths == [i \in DOMAIN sample |-> Len(SplitWords(sample[i].text))]
        newEmojiPositions == GetEmojiPositions(newComment)
        samePositionCount ==
            Cardinality({ i \in DOMAIN sample :
                            GetEmojiPositions(sample[i].text) = newEmojiPositions })
        issues ==
            (IF sameOpeningCount >= PatternRepeats
             THEN << <<"repeated_opening", newOpening, sameOpeningCount>> >> ELSE <<>>)
            \o (IF ConsistentLength(Len(SplitWords(newComment)), recentLengths)
                THEN << <<"consistent_length">> >> ELSE <<>>)
            \o (IF newEmojiPositions # <<>> /\ samePositionCount >= PatternRepeats
                THEN << <<"emoji_pattern">> >> ELSE <<>>)
    IN  IF Len(recentComments) < PatternMinRecent
        THEN [ hasPatterns |-> FALSE, issues |-> <<>> ]
        ELSE [ hasPatterns |-> issues # <<>>, issues |-> issues ]

\* a runFullCheck that also rejects a comment with detected patterns
RunFullCheckStrict(ts, history, comment, t) ==
    LET rateCheck == ADCheckRateLimit(ts, t)
        similarity == CheckSimilarityToRecent(history, comment)
        patterns == DetectPatterns(history, comment)
    IN  [ passed |-> rateCheck.allowed /\ similarity.passed /\ ~patterns.hasPatterns,
          warnings |-> IF patterns.hasPatterns THEN patterns.issues ELSE <<>>,
          blocks |-> (IF rateCheck.allowed THEN <<>> ELSE <<rateCheck.reason>>)
                     \o (IF similarity.passed THEN <<>>
                         ELSE << <<"too similar", similarity.match>> >>) ]
\* AntiDetect.runFullCheck(comment): the three checks read the stored
\* timestamps and history one after the other
RunFullCheck(ts, history, comment, t) ==
    LET rateCheck == ADCheckRateLimit(ts, t)
        similarity == CheckSimilarityToRecent(history, comment)
        patterns == DetectPatterns(history, comment)
    IN  [ passed |-> rateCheck.allowed /\ similarity.passed,
          warnings |-> IF patterns.hasPatterns THEN patterns.issues ELSE <<>>,
          blocks |-> (IF rateCheck.allowed THEN <<>> ELSE <<rateCheck.reason>>)
                     \o (IF similarity.passed THEN <<>>
                         ELSE << <<"too similar", similarity.match>> >>) ]

\* comments: six words that open as "a b c" does, an emoji and a word
CommentAbcxyz == <<"a", " ", "b", " ", "c", " ", "x", " ", "y", " ", "z">>
CommentEmojiQ == <<"hs", "ls", " ", "q">>
EarlierEmojiZ == <<"hs", "ls", " ", "z">>

\* recordCommentGeneration() of the service worker stores a timestamp
GenerationRecorded ==
    /\ driver = "page"
    /\ rateLimit' = RecordTimestamps(rateLimit, now)
    /\ fullResult' = NoFull
    /\ UNCHANGED <<now, responseCache, commentHistory, req, generated>>
    /\ UNCHANGED <<adResult, driver, cacheVars, call, pageVars>>
    /\ UNCHANGED <<wordLimits, panel, inbox, offscreen, bridge>>

\* AntiDetect.runFullCheck(comment) on the stored timestamps and history
FullCheck(comments) ==
    /\ driver = "page"
    /\ \E c \in comments :
          fullResult' = [ made |-> TRUE, comment |-> c,
                          value |-> RunFullCheck(rateLimit, commentHistory, c, now) ]
    /\ UNCHANGED <<now, rateLimit, responseCache, commentHistory, req, generated>>
    /\ UNCHANGED <<adResult, driver, cacheVars, call, pageVars>>
    /\ UNCHANGED <<wordLimits, panel, inbox, offscreen, bridge>>

----------------------------------------------------------------------------
\* Service worker: the word limit of the generation prompt

\* let wordLimit = 20, maxTokens <= 200, Math.floor(maxTokens / 5)
DefaultWordLimit == 20
WordLimitMaxTokens == 200
TokensPerWord == 5

\* a word limit that follows the budget at every size
WordLimitUnbounded(maxTokens) ==
    IF maxTokens # 0 THEN maxTokens \div TokensPerWord ELSE DefaultWordLimit
\* generateComment: the wordLimit it hands to buildGenerationPrompt.  A budget
\* that is missing or not a number is falsy as 0 is
WordLimit(maxTokens) ==
    IF maxTokens # 0 /\ maxTokens <= WordLimitMaxTokens
    THEN maxTokens \div TokensPerWord
    ELSE DefaultWordLimit

\* buildGenerationPrompt: constraints?.wordLimit || 20, the number written
\* into the prompt
PromptWordLimit(wordLimit) == IF wordLimit # 0 THEN wordLimit ELSE DefaultWordLimit

\* largest token budget the settings are given
MaxBudget == 205

\* generateComment builds the generation prompt for settings.maxTokens
BuildPrompt(budgets) ==
    /\ driver = "page"
    /\ \E maxTokens \in budgets :
          wordLimits' = <<[ maxTokens |-> maxTokens,
                            wordLimit |-> PromptWordLimit(WordLimit(maxTokens)) ]>>
                        \o Slice(wordLimits, 1)
    /\ UNCHANGED <<now, rateLimit, responseCache, commentHistory, req, generated>>
    /\ UNCHANGED <<adResult, driver, cacheVars, call, pageVars, fullResult, panel, inbox, offscreen, bridge>>

----------------------------------------------------------------------------
\* Content script: the suggestion panel (src/content/content.js)

\* generateAndDisplayComment calls one panel sees: the one showSuggestionPanel
\* makes, then those of the Another and Retry buttons
NumGens == 2
Gens == 1..NumGens

\* a call that has not been made
IdleGen == [ pc |-> "idle", comment |-> <<>>, typed |-> 0 ]

\* the panel as createSuggestionPanel builds it, before the first call
NoPanel == [ status |-> TRUE, result |-> FALSE, error |-> FALSE,
             preview |-> <<>>, gens |-> [g \in Gens |-> IdleGen] ]

\* generateAndDisplayComment(postElement, vibe) is entered: by
\* showSuggestionPanel for the first call, by a click on Another or Retry,
\* which can be clicked while .lcc-result or .lcc-error is displayed, for
\* the later ones.  It shows the status, hides result and error and goes on
\* to wait for its response
GenerateStart(g) ==
    /\ driver = "page"
    /\ panel.gens[g].pc = "idle"
    /\ g > 1 => panel.gens[g - 1].pc # "idle" /\ (panel.result \/ panel.error)
    /\ panel' = [panel EXCEPT !.status = TRUE, !.result = FALSE, !.error = FALSE,
                              !.gens[g].pc = "waiting"]
    /\ UNCHANGED <<now, rateLimit, responseCache, commentHistory, req, generated>>
    /\ UNCHANGED <<adResult, driver, cacheVars, call, pageVars, fullResult, wordLimits, inbox,
                   offscreen, bridge>>

\* response.success: the status is hidden, the result shown, the preview
\* emptied and typewriterEffect types the first character at once
ShowResponse(g, comment) ==
    [panel EXCEPT !.status = FALSE, !.result = TRUE,
                  !.preview = Slice(comment, 1),
                  !.gens[g] = [ pc |-> "typing", comment |-> comment,
                                typed |-> Min2(1, Len(comment)) ]]

\* the response of call g arrives with a comment
ResponseArrives(g, comments) ==
    /\ driver = "page"
    /\ panel.gens[g].pc = "waiting"
    /\ \E c \in comments : panel' = ShowResponse(g, c)
    /\ UNCHANGED <<now, rateLimit, responseCache, commentHistory, req, generated>>
    /\ UNCHANGED <<adResult, driver, cacheVars, call, pageVars, fullResult, wordLimits, inbox,
                   offscreen, bridge>>

\* the response of call g is a failure, or the call throws: the catch hides
\* the status and shows the error
ResponseFails(g) ==
    /\ driver = "page"
    /\ panel.gens[g].pc = "waiting"
    /\ panel' = [panel EXCEPT !.status = FALSE, !.error = TRUE,
                              !.gens[g].pc = "done"]
    /\ UNCHANGED <<now, rateLimit, responseCache, commentHistory, req, generated>>
    /\ UNCHANGED <<adResult, driver, cacheVars, call, pageVars, fullResult, wordLimits, inbox,
                   offscreen, bridge>>

\* the timer of typewriterEffect fires for call g: type() appends the next
\* character to the preview, or resolves when the text is typed
TypeNext(g) ==
    /\ driver = "page"
    /\ panel.gens[g].pc = "typing"
    /\ LET gen == panel.gens[g] IN
       IF gen.typed < Len(gen.comment)
       THEN panel' = [panel EXCEPT !.preview = Append(@, gen.comment[gen.typed + 1]),
                                   !.gens[g].typed = @ + 1]
       ELSE panel' = [panel EXCEPT !.gens[g].pc = "done"]
    /\ UNCHANGED <<now, rateLimit, responseCache, commentHistory, req, generated>>
    /\ UNCHANGED <<adResult, driver, cacheVars, call, pageVars, fullResult, wordLimits, inbox,
                   offscreen, bridge>>

----------------------------------------------------------------------------
\* The GENERATE_COMMENT message, as sent and as read

\* extractPostData(postElement): what the content script reads of a post
PostData(content, name, hasMedia, t) ==
    [ content |-> content, author |-> [name |-> name, headline |-> ""],
      urn |-> "", hasMedia |-> hasMedia, timestamp |-> t ]

\* chrome.runtime.sendMessage({ type: 'GENERATE_COMMENT', postData, vibe }) in
\* generateAndDisplayComment, remote provider
ContentMessage(postData, vibe) ==
    [ type |-> "GENERATE_COMMENT", postData |-> postData, vibe |-> vibe ]

\* message[name]: undefined for a property the message does not have
Property(message, name) ==
    IF name \in DOMAIN message
    THEN [ defined |-> TRUE, value |-> message[name] ]
    ELSE [ defined |-> FALSE ]

\* err.message of the TypeError postContent.slice throws on undefined
ErrUndefinedSlice == "Cannot read properties of undefined (reading 'slice')"

\* `${authorName}` of an undefined authorName
UndefinedName == "undefined"

\* the onMessage listener is given a GENERATE_COMMENT message and runs
\* generateComment(message.postContent, message.authorName, message.vibe).
\* After the gate, the cache key is built outside the try block: with
\* postContent undefined postContent.slice throws, the promise is rejected
\* and the listener's catch answers { success: false, error: err.message }
HandleMessage(r, messages, stored) ==
    /\ req[r].pc \in {"idle", "done"}
    /\ \E message \in messages, s \in stored :
         LET postContent == Property(message, "postContent")
             authorName == Property(message, "authorName")
             vibe == Property(message, "vibe")
             status == CheckRateLimit(rateLimit, now)
             started ==
                 [IdleReq EXCEPT !.pc = "lookup",
                     !.post = [ authorName |-> IF authorName.defined
                                               THEN authorName.value ELSE UndefinedName,
                                postContent |-> IF postContent.defined
                                                THEN postContent.value ELSE <<>> ],
                     !.vibe = IF vibe.defined THEN vibe.value ELSE NoVibe,
                     !.settings = s, !.rl0 = rateLimit, !.cache0 = responseCache,
                     !.soon = TooSoon(rateLimit, now),
                     !.trace = StepName(req[r].pc)]
         IN  /\ message.type = "GENERATE_COMMENT"
             /\ inbox' = message
             /\ req' = [req EXCEPT ![r] =
                   IF ~status.allowed
                   THEN [started EXCEPT !.pc = "done", !.settings = DefaultSettings,
                                        !.result = Blocked(status), !.via = "blocked"]
                   ELSE IF ~postContent.defined
                   THEN [started EXCEPT !.pc = "done", !.settings = DefaultSettings,
                                        !.result = Failed(ErrUndefinedSlice),
                                        !.via = "threw"]
                   ELSE started]
    /\ UNCHANGED <<now, rateLimit, responseCache, commentHistory, generated>>
    /\ adResult' = NoCheck
    /\ UNCHANGED <<pageVars, driver, cacheVars, call, fullResult, wordLimits, panel>>
    /\ UNCHANGED <<offscreen, bridge>>

----------------------------------------------------------------------------
\* Service worker: setupOffscreenDocument.  The browser serves the API calls
\* of the worker in the order they were made and its answers reach the worker
\* in the order they were given; an answer of getContexts tells what existed
\* when the browser served the call.

\* concurrent callLLM calls for the provider 'nano'
NumCallers == 3
Callers == 1..NumCallers

\* creatingOffscreen is undefined, no document, no call
NoOffscreen ==
    [ doc |-> "none",           \* the browser's document: none, loading, open
      creating |-> "null",      \* creatingOffscreen: null, or its promise
      pc |-> [k \in Callers |-> "idle"],
      calls |-> <<>>,           \* API calls the browser has not served yet
      answers |-> <<>>,         \* answers the worker has not been given yet
      invoked |-> 0,            \* history: createDocument invocations
      clash |-> FALSE ]         \* history: one of them met a document or a creation

\* setupOffscreenDocument(path) is entered by caller k and calls
\* chrome.runtime.getContexts
SetupEnter(k) ==
    /\ driver = "page"
    /\ offscreen.pc[k] = "idle"
    /\ offscreen' = [offscreen EXCEPT !.pc[k] = "contexts",
                                      !.calls = Append(@, <<"getContexts", k>>)]
    /\ UNCHANGED <<now, rateLimit, responseCache, commentHistory, req, generated>>
    /\ UNCHANGED <<adResult, driver, cacheVars, call, pageVars, fullResult, wordLimits,
                   panel, inbox, bridge>>

\* the browser serves the next API call: getContexts is answered with what
\* exists (a document that is still loading may or may not be listed),
\* createDocument starts to load the document, or is refused when there is
\* one
BrowserServes ==
    /\ driver = "page"
    /\ offscreen.calls # <<>>
    /\ LET c == Head(offscreen.calls)
           served == [offscreen EXCEPT !.calls = Tail(@)]
       IN  \E listed \in BOOLEAN :
             /\ offscreen.doc = "none" => ~listed
             /\ offscreen.doc = "open" => listed
             /\ offscreen' =
                   IF c[1] = "getContexts"
                   THEN [served EXCEPT !.answers = Append(@, <<"contexts", c[2], listed>>)]
                   ELSE IF offscreen.doc = "none"
                   THEN [served EXCEPT !.doc = "loading"]
                   ELSE [served EXCEPT !.answers = Append(@, <<"created", c[2], FALSE>>)]
    /\ UNCHANGED <<now, rateLimit, responseCache, commentHistory, req, generated>>
    /\ UNCHANGED <<adResult, driver, cacheVars, call, pageVars, fullResult, wordLimits,
                   panel, inbox, bridge>>

\* the document has loaded, or failed to: createDocument is answered
BrowserLoaded ==
    /\ driver = "page"
    /\ offscreen.doc = "loading"
    /\ \E ok \in BOOLEAN :
          offscreen' = [offscreen EXCEPT
                           !.doc = IF ok THEN "open" ELSE "none",
                           !.answers = Append(@, <<"created", 0, ok>>)]
    /\ UNCHANGED <<now, rateLimit, responseCache, commentHistory, req, generated>>
    /\ UNCHANGED <<adResult, driver, cacheVars, call, pageVars, fullResult, wordLimits,
                   panel, inbox, bridge>>

\* a caller that creates whenever no document was found
AfterContextsUnguarded(o, k, exists) ==
    IF exists THEN [o EXCEPT !.pc[k] = "returned"]
    ELSE [o EXCEPT !.pc[k] = "creating", !.creating = "pending",
                   !.calls = Append(@, <<"createDocument", k>>),
                   !.invoked = @ + 1,
                   !.clash = @ \/ o.doc # "none" \/ o.creating = "pending"]
\* caller k resumes after await getContexts: it returns when a document was
\* found, awaits creatingOffscreen when that is set (a rejected promise
\* throws at once), and else calls createDocument and stores the promise
AfterContexts(o, k, exists) ==
    IF exists THEN [o EXCEPT !.pc[k] = "returned"]
    ELSE IF o.creating = "pending" THEN [o EXCEPT !.pc[k] = "awaiting"]
    ELSE IF o.creating = "rejected" THEN [o EXCEPT !.pc[k] = "threw"]
    ELSE [o EXCEPT !.pc[k] = "creating", !.creating = "pending",
                   !.calls = Append(@, <<"createDocument", k>>),
                   !.invoked = @ + 1,
                   !.clash = @ \/ o.doc # "none"]

\* the promise of createDocument settles: the creator sets creatingOffscreen
\* to null after a success and throws, leaving the promise, after a failure;
\* the callers awaiting the promise return or throw with it
AfterCreated(o, ok) ==
    [o EXCEPT !.creating = IF ok THEN "null" ELSE "rejected",
              !.pc = [k \in Callers |->
                        IF o.pc[k] \in {"creating", "awaiting"}
                        THEN (IF ok THEN "returned" ELSE "threw")
                        ELSE o.pc[k]]]

\* the worker is given the next answer and the code awaiting it runs
WorkerResumes ==
    /\ driver = "page"
    /\ offscreen.answers # <<>>
    /\ LET a == Head(offscreen.answers)
           given == [offscreen EXCEPT !.answers = Tail(@)]
       IN  offscreen' = IF a[1] = "contexts" THEN AfterContexts(given, a[2], a[3])
                        ELSE AfterCreated(given, a[3])
    /\ UNCHANGED <<now, rateLimit, responseCache, commentHistory, req, generated>>
    /\ UNCHANGED <<adResult, driver, cacheVars, call, pageVars, fullResult, wordLimits,
                   panel, inbox, bridge>>

----------------------------------------------------------------------------
\* Content script and AI bridge: a request for the provider 'nano' or
\* 'puter' is a prompt posted to the window; the bridge answers with a
\* window message, which the window gives to every listener registered.
\* The result text of the bridge is taken as it is (texts without a JSON
\* object in them).

\* window messages the bridge may have posted and the window not delivered
MaxBridgeMessages == 2

\* a generateAndDisplayComment call that has not reached the bridge
IdleLocal ==
    [ pc |-> "idle",            \* idle, waiting, resolved, rejected
      listening |-> FALSE,      \* its handler is a listener of the window
      at |-> 0,                 \* when its timer was set
      comment |-> <<>>,         \* response.comment
      by |-> 0 ]                \* history: the request whose prompt the
                                \* message that settled it answered (0: none)

NoBridge ==
    [ reqs |-> [g \in Gens |-> IdleLocal],
      prompts |-> {},           \* requests whose prompt the bridge is handling
      messages |-> <<>> ]       \* LCC_AI_BRIDGE messages posted, in order; `of`
                                \* is history, the message has no such field

\* generateAndDisplayComment with a local provider: the handler is added,
\* the prompt posted and the timer set.  Calls are numbered in the order
\* they are made; a call is made from the panel of another post, or by
\* Another or Retry, whatever the calls before it are waiting for
LocalRequest(g) ==
    /\ driver = "page"
    /\ bridge.reqs[g].pc = "idle"
    /\ g > 1 => bridge.reqs[g - 1].pc # "idle"
    /\ bridge' = [bridge EXCEPT
                     !.reqs[g] = [IdleLocal EXCEPT !.pc = "waiting",
                                                   !.listening = TRUE, !.at = now],
                     !.prompts = @ \cup {g}]
    /\ UNCHANGED <<now, rateLimit, responseCache, commentHistory, req, generated>>
    /\ UNCHANGED <<adResult, driver, cacheVars, call, pageVars, fullResult, wordLimits,
                   panel, inbox, offscreen>>

\* sendResponse of the bridge
BridgePosts(type, result, g) ==
    [bridge EXCEPT !.messages = Append(@, [type |-> type, result |-> result, of |-> g])]

\* handleNanoRequest or handlePuterRequest ends for one of the prompts, with
\* a text or with an error
BridgeAnswers(results) ==
    /\ driver = "page"
    /\ Len(bridge.messages) < MaxBridgeMessages
    /\ \E g \in bridge.prompts, type \in {"SUCCESS", "ERROR"}, r \in results :
          bridge' = [BridgePosts(type, IF type = "SUCCESS" THEN r ELSE <<>>, g)
                        EXCEPT !.prompts = @ \ {g}]
    /\ UNCHANGED <<now, rateLimit, responseCache, commentHistory, req, generated>>
    /\ UNCHANGED <<adResult, driver, cacheVars, call, pageVars, fullResult, wordLimits,
                   panel, inbox, offscreen>>

\* the 'downloadprogress' listener of a nano session
BridgeProgress ==
    /\ driver = "page"
    /\ Len(bridge.messages) < MaxBridgeMessages
    /\ \E g \in bridge.prompts : bridge' = BridgePosts("DOWNLOAD_PROGRESS", <<>>, g)
    /\ UNCHANGED <<now, rateLimit, responseCache, commentHistory, req, generated>>
    /\ UNCHANGED <<adResult, driver, cacheVars, call, pageVars, fullResult, wordLimits,
                   panel, inbox, offscreen>>

\* the handler of a request is given a message whose source is LCC_AI_BRIDGE
Handler(local, message) ==
    IF message.type = "SUCCESS"
    THEN [local EXCEPT !.listening = FALSE, !.pc = "resolved",
                       !.comment = message.result, !.by = message.of]
    ELSE IF message.type = "ERROR"
    THEN [local EXCEPT !.listening = FALSE, !.pc = "rejected", !.by = message.of]
    ELSE local

\* the window gives the next message to every listener registered
WindowDelivers ==
    /\ driver = "page"
    /\ bridge.messages # <<>>
    /\ bridge' = [bridge EXCEPT
                     !.messages = Tail(@),
                     !.reqs = [g \in Gens |->
                                 IF bridge.reqs[g].listening
                                 THEN Handler(bridge.reqs[g], Head(bridge.messages))
                                 ELSE bridge.reqs[g]]]
    /\ UNCHANGED <<now, rateLimit, responseCache, commentHistory, req, generated>>
    /\ UNCHANGED <<adResult, driver, cacheVars, call, pageVars, fullResult, wordLimits,
                   panel, inbox, offscreen>>

\* the timer of a request fires: the handler is removed and the promise
\* rejected, which changes nothing once it is settled
LocalTimeout(g) ==
    /\ driver = "page"
    /\ bridge.reqs[g].pc = "waiting"
    /\ now >= bridge.reqs[g].at + BridgeTimeoutMs
    /\ bridge' = [bridge EXCEPT !.reqs[g].listening = FALSE,
                                !.reqs[g].pc = "rejected"]
    /\ UNCHANGED <<now, rateLimit, responseCache, commentHistory, req, generated>>
    /\ UNCHANGED <<adResult, driver, cacheVars, call, pageVars, fullResult, wordLimits,
                   panel, inbox, offscreen>>

----------------------------------------------------------------------------
\* Specifications

\* clock readings: inside the 30 s cooldown, at both sides of the end of the
\* one-hour window of what was recorded at 0
Instants == {0, 5000, 3599999, 3600000}
FewInstants == {0, 5000}

\* nothing was ever given to CacheService
CacheServiceIdle ==
    /\ semCache = <<>>
    /\ getResult = NoGet
    /\ repeated = FALSE
    /\ inserted = 0
    /\ touched = 0
    /\ firstAt = -1
    /\ lastSet = NoSet

\* no similarity check was made
PageIdle ==
    /\ simResult = NoSimilarity
    /\ fingerprints = <<>>
    /\ feed = [p \in FeedPosts |-> NoPost]
    /\ pointer = NoPointer

\* nothing has happened around the pipeline
UiIdle ==
    /\ fullResult = NoFull
    /\ wordLimits = <<>>
    /\ panel = NoPanel
    /\ inbox = NoMessage
    /\ offscreen = NoOffscreen
    /\ bridge = NoBridge

\* the state the extension is installed with
Init ==
    /\ now = 0
    /\ rateLimit = <<>>
    /\ responseCache = EmptyCache
    /\ commentHistory = <<>>
    /\ req = [r \in Req |-> IdleReq]
    /\ generated = 0
    /\ adResult = NoCheck
    /\ driver = "worker"
    /\ CacheServiceIdle
    /\ call = IdleCall
    /\ PageIdle
    /\ UiIdle

\* one request at a time, from the installed state
NextSeq ==
    \/ Start(1, {PostA}, {NoVibe, SomeVibe}, {KeyedSettings, DefaultSettings})
    \/ Step(1, AnalysisTexts, CommentTexts)
    \/ Tick(Instants)
    \/ ADCheck

SpecSeq == Init /\ [][NextSeq]_vars

\* The stored state after k requests with a vibe for PostA, each answered
\* <<"a">> by the provider with a parsed analysis, all at time 0
AfterGenerations(k) ==
    /\ now = 0
    /\ rateLimit = [i \in 1..k |-> 0]
    /\ responseCache =
         IF k = 0 THEN EmptyCache
         ELSE SetCache(EmptyCache, CacheKey(PostA),
                       FinalResponse(<<"a">>, AnalysisDoc,
                                     CheckRateLimit([i \in 1..(k - 1) |-> 0], 0)), 0)
    /\ commentHistory = <<>>
    /\ generated = k

\* generations already recorded when overlapping requests begin
RaceStart == {MaxCommentsPerHour - 2, MaxCommentsPerHour - 1}

InitRace ==
    /\ \E k \in RaceStart : AfterGenerations(k)
    /\ req = [r \in Req |-> IdleReq]
    /\ adResult = NoCheck
    /\ driver = "worker"
    /\ CacheServiceIdle
    /\ call = IdleCall
    /\ PageIdle
    /\ UiIdle

\* requests may overlap
Next ==
    \/ \E r \in Req : Start(r, {PostA}, {SomeVibe}, {KeyedSettings})
    \/ \E r \in Req : Step(r, {<<"{doc}">>}, {<<"b">>})
    \/ Tick(FewInstants)
    \/ ADCheck

Spec == InitRace /\ [][Next]_vars

\* the installed state, with CacheService as the component exercised
InitCache ==
    /\ now = 0
    /\ rateLimit = <<>>
    /\ responseCache = EmptyCache
    /\ commentHistory = <<>>
    /\ req = [r \in Req |-> IdleReq]
    /\ generated = 0
    /\ adResult = NoCheck
    /\ driver = "cache"
    /\ CacheServiceIdle
    /\ call = IdleCall
    /\ PageIdle
    /\ UiIdle

\* clock readings a minute apart at both sides of the 24 h time to live of
\* what was written at 0 and of what was written a minute later
DayInstants ==
    {0, MsPerMinute, CacheTtlMs - MsPerMinute,
     CacheTtlMs + MsPerMinute, CacheTtlMs + 2 * MsPerMinute}

\* fingerprints of the posts CacheService is given over a day
DayHashes == {1, 2}

\* a day of requests, one at a time, or a day of CacheService
\* calls
NextDay ==
    \/ driver = "worker" /\ Start(1, {PostA, PostB}, {NoVibe, SomeVibe}, {KeyedSettings})
    \/ driver = "worker" /\ Step(1, {<<"{doc}">>}, {<<"b">>})
    \/ driver = "cache" /\ inserted + touched < MaxSets
          /\ CacheServiceSet(DayHashes, Replies, {0})
    \/ driver = "cache" /\ CacheServiceGet(DayHashes)
    \/ Tick(DayInstants)

SpecDay == (Init \/ InitCache) /\ [][NextDay]_vars

\* time between two calls while the cache is filled: a millisecond, or a day
FillDelays == {1, CacheTtlMs}

\* CacheService.set for one new fingerprint after the other, each call later
\* than the one before, and lookups of the first two fingerprints
NextFill ==
    \/ CacheServiceSet({inserted + 1} \cap 1..NumHashes, {ReplyOk},
                       {d \in FillDelays : now + d <= FillHorizon})
    \/ CacheServiceGet({1, 2})

SpecFill == InitCache /\ [][NextFill]_vars

\* the installed state, with one callLLM invocation as what is exercised
InitCall ==
    /\ now = 0
    /\ rateLimit = <<>>
    /\ responseCache = EmptyCache
    /\ commentHistory = <<>>
    /\ req = [r \in Req |-> IdleReq]
    /\ generated = 0
    /\ adResult = NoCheck
    /\ driver = "call"
    /\ CacheServiceIdle
    /\ call = IdleCall
    /\ PageIdle
    /\ UiIdle

\* what a provider endpoint answers
CallResponses ==
    { NetError,
      Http(500, <<>>, BodyOops), Http(500, <<>>, BodyUpstream),
      Http(401, <<>>, BodyOops), Http(403, <<>>, BodyOops),
      Http(429, <<"7">>, BodyOops), Http(429, <<"W", "e", "d">>, BodyOops),
      Http(429, <<>>, BodyQuota), Http(429, <<>>, BodyQuotaFraction),
      Http(429, <<>>, BodyOops),
      Ok200("choices", <<"a">>), Ok200("choices", <<"b">>),
      Ok200("candidates", <<"a">>) }

\* settings callLLM is given
CallSettings ==
    {KeyedSettings, GeminiSettings, DefaultSettings, NanoSettings, PuterSettings}

\* clock readings while a request is in flight or a timer runs
CallInstants == {500, 31000}

\* one callLLM invocation
NextCall ==
    \/ CallStart(CallSettings)
    \/ OffscreenAnswer({<<"a">>})
    \/ HttpAnswer(CallResponses)
    \/ Retry
    \/ Tick(CallInstants)

SpecCall == InitCall /\ [][NextCall]_vars

\* requests one at a time with every way the Stage-1 call can end, or one
\* callLLM invocation against an endpoint that answers, refuses or fails
NextStage ==
    \/ driver = "worker"
          /\ Start(1, {PostA, PostD}, {NoVibe, SomeVibe},
                   {KeyedSettings, DefaultSettings, NanoSettings})
    \/ driver = "worker" /\ Step(1, AnalysisTexts, {<<"b">>})
    \/ driver = "call" /\ CallStart(CallSettings)
    \/ OffscreenAnswer({<<"a">>})
    \/ HttpAnswer({NetError, Http(401, <<>>, BodyOops), Ok200("choices", <<"a">>)})
    \/ Retry
    \/ Tick(FewInstants)

SpecStage == (Init \/ InitCall) /\ [][NextStage]_vars

\* the installed state, with the content-script side as what is exercised
InitPage ==
    /\ now = 0
    /\ rateLimit = <<>>
    /\ responseCache = EmptyCache
    /\ commentHistory = <<>>
    /\ req = [r \in Req |-> IdleReq]
    /\ generated = 0
    /\ adResult = NoCheck
    /\ driver = "page"
    /\ CacheServiceIdle
    /\ call = IdleCall
    /\ PageIdle
    /\ UiIdle

\* comments are recorded and candidates are compared with the recorded ones
NextSimilar ==
    \/ HistoryAdd({EarlierAbce, EarlierAbc, EarlierAbxy, EarlierZ})
    \/ SimilarityCheck({CommentAbcd, CommentCapitals, CommentQ})

SpecSimilar == InitPage /\ [][NextSimilar]_vars

\* each slot serves one request, for one of two posts, and requests may overlap
NextOverlap ==
    \/ \E r \in Req :
          req[r].pc = "idle" /\ Start(r, {PostA, PostB}, {NoVibe}, {KeyedSettings})
    \/ \E r \in Req : Step(r, {<<"{doc}">>}, {<<"b">>})
    \/ Tick(FewInstants)

SpecOverlap == Init /\ [][NextOverlap]_vars

\* posts are fingerprinted one after the other
NextHash ==
    Fingerprint(HashedPosts)

SpecHash == InitPage /\ [][NextHash]_vars

\* clock readings while the user looks at the feed
PageInstants == {1000, 3000, 4000}

\* posts come into the page and the pointer moves over them
NextButtons ==
    \/ PostAdded({TRUE, FALSE})
    \/ PointerEnter
    \/ PointerLeave
    \/ Tick(PageInstants)

SpecButtons == InitPage /\ [][NextButtons]_vars

\* most CacheService.set calls of a run that gives one fingerprint many responses
MaxVariationSets == 7

\* CacheService.set for two fingerprints, a millisecond apart
NextVariations ==
    inserted + touched < MaxVariationSets /\ CacheServiceSet({1, 2}, Replies, {1})

SpecVariations == InitCache /\ [][NextVariations]_vars

\* requests for two posts with different cache keys, one at a time, at the
\* same instant or more than a day apart
NextStale ==
    \/ Start(1, {PostA, PostC}, {NoVibe}, {KeyedSettings})
    \/ Step(1, {<<"{doc}">>}, {<<"b">>})
    \/ Tick({CacheTtlMs + MsPerMinute})

SpecStale == Init /\ [][NextStale]_vars

\* the vibes a request can carry, and the Stage-2 text of a provider whose
\* answer follows the prompt: one comment per vibe, one for no vibe
Vibes == {NoVibe, SomeVibe, OtherVibe}
CommentFor(vibe) ==
    CASE vibe = NoVibe -> <<"a">>
      [] vibe = SomeVibe -> <<"b">>
      [] vibe = OtherVibe -> <<"c">>

\* requests for one post, one at a time, with and without a vibe
NextVibes ==
    \/ Start(1, {PostA}, Vibes, {KeyedSettings})
    \/ \E v \in Vibes : req[1].vibe = v /\ Step(1, {<<"{doc}">>}, {CommentFor(v)})
    \/ Tick(FewInstants)

SpecVibes == Init /\ [][NextVibes]_vars

\* most history entries a run of full checks is given
MaxFullHistory == 4
\* clock readings: inside the 30 s cooldown of what was recorded at 0, and at
\* its end
FullInstants == {0, 30000}

\* full checks on a history and on timestamps recorded, up to the hourly
\* limit, before the clock moves on
NextFull ==
    \/ now = 0 /\ Len(commentHistory) < MaxFullHistory
          /\ HistoryAdd({EarlierAbc, EarlierEmojiZ, EarlierZ})
    \/ now = 0 /\ Len(rateLimit) < MaxCommentsPerHour /\ GenerationRecorded
    \/ FullCheck({CommentAbcd, CommentAbcxyz, CommentEmojiQ, CommentQ})
    \/ Tick(FullInstants)

SpecFull == InitPage /\ [][NextFull]_vars

\* generation prompts built for one token budget after the other
NextLimit ==
    \/ BuildPrompt(0..MaxBudget)

SpecLimit == InitPage /\ [][NextLimit]_vars

\* comments the provider answers with
PanelComments == {<<"a", "b">>, <<"x", "y", "z">>}

\* one panel: its first generation and the regenerations asked for on it
NextPanel ==
    \E g \in Gens :
        \/ GenerateStart(g)
        \/ ResponseArrives(g, PanelComments)
        \/ ResponseFails(g)
        \/ TypeNext(g)

SpecPanel == InitPage /\ [][NextPanel]_vars

\* the messages the content script sends for the posts of a page: content,
\* author, media and vibe vary, the timestamp is the clock's
PageMessages ==
    { ContentMessage(PostData(c, n, h, now), v) :
        c \in {<<"h", "i">>, <<"h", "i", "!">>, LongContent}, n \in {"jane", "Unknown"},
        h \in BOOLEAN, v \in {NoVibe, SomeVibe} }

\* the service worker answers the content script's messages, key configured
NextMessage ==
    \/ HandleMessage(1, PageMessages, {KeyedSettings})
    \/ Tick(Instants)

SpecMessage == Init /\ [][NextMessage]_vars

\* requests reaching the service worker while the stored provider is 'puter',
\* or a remote one with its key
NextPuter ==
    \/ Start(1, {PostA, PostC}, {NoVibe}, {PuterSettings, KeyedSettings})
    \/ Step(1, {<<"{doc}">>}, {<<"a">>})
    \/ Tick(FewInstants)

SpecPuter == Init /\ [][NextPuter]_vars

\* responses of an HTTP attempt: a transient error, a 429, an answer
LiveResponses == {NetError, Http(429, <<>>, BodyOops), Ok200("choices", <<"a">>)}

\* requests through the pipeline and callLLM invocations whose attempts are
\* answered with a transient error, a 429 or a completion
NextLive ==
    \/ driver = "worker"
          /\ Start(1, {PostA}, {NoVibe}, {KeyedSettings, DefaultSettings, NanoSettings})
    \/ driver = "worker" /\ Step(1, {<<"{doc}">>}, {<<"b">>})
    \/ driver = "call" /\ CallStart({KeyedSettings, NanoSettings})
    \/ OffscreenAnswer({<<"a">>})
    \/ HttpAnswer(LiveResponses)
    \/ Retry
    \/ Tick(FewInstants)

\* what is pending happens: an HTTP attempt or the offscreen document
\* answers, a retry timer fires, an awaited step of generateComment resumes
SpecLive ==
    /\ (Init \/ InitCall) /\ [][NextLive]_vars
    /\ WF_vars(HttpAnswer(LiveResponses))
    /\ WF_vars(OffscreenAnswer({<<"a">>}))
    /\ WF_vars(Retry)
    /\ WF_vars(driver = "worker" /\ Step(1, {<<"{doc}">>}, {<<"b">>}))

\* concurrent setupOffscreenDocument calls
NextOffscreen ==
    \/ \E k \in Callers : SetupEnter(k)
    \/ BrowserServes
    \/ BrowserLoaded
    \/ WorkerResumes

SpecOffscreen == InitPage /\ [][NextOffscreen]_vars

\* texts the bridge answers with
BridgeResults == {<<"a">>, <<"b">>}

\* the instants of the bridge executions
BridgeInstants == {0, 15000, 30000}

\* local-provider requests of one page, which may overlap
NextBridge ==
    \/ \E g \in Gens : LocalRequest(g)
    \/ BridgeAnswers(BridgeResults)
    \/ BridgeProgress
    \/ WindowDelivers
    \/ \E g \in Gens : LocalTimeout(g)
    \/ Tick(BridgeInstants)

SpecBridge == InitPage /\ [][NextBridge]_vars

\* last clock reading of a run whose CacheService.set calls share their
\* milliseconds
TieHorizon == 1

\* CacheService.set for one new fingerprint after the other, each call in the
\* millisecond of the call before it or in the next one
NextTie ==
    \/ CacheServiceSet({inserted + 1} \cap 1..NumHashes, {ReplyOk},
                       {d \in {0, 1} : now + d <= TieHorizon})

SpecTie == InitCache /\ [][NextTie]_vars

----------------------------------------------------------------------------
\* Claims about the generation pipeline

Admitted == {"lookup", "stage1", "stage2", "status", "cacheGet", "cacheSet",
             "rateGet", "rateSet"}

\* C1: from the empty state, with one request at a time, inside the first hour a
\* request is rejected only when 10 generations have completed, a request that
\* passed the gate found fewer than 10, and the rejection (by the service
\* worker's check and by AntiDetect's) reports allowed = false and remaining = 0.
C1_TenthAdmittedEleventhRejected ==
    now < WindowMs =>
      /\ \A r \in Req :
           /\ req[r].via = "blocked" =>
                 /\ generated = MaxCommentsPerHour
                 /\ ~req[r].result.rateLimit.allowed
                 /\ req[r].result.rateLimit.remaining = 0
           /\ req[r].pc \in Admitted \/ req[r].via \in {"cache", "failed"} =>
                 generated < MaxCommentsPerHour
           /\ req[r].via = "provider" => generated <= MaxCommentsPerHour
      /\ adResult # NoCheck /\ generated >= MaxCommentsPerHour =>
           ~adResult.allowed /\ adResult.remaining = 0

\* the 11th request of the hour was rejected
C1_Witness ==
    \E r \in Req :
        /\ req[r].via = "blocked"
        /\ now < WindowMs
        /\ generated = MaxCommentsPerHour
        /\ req[r].result.rateLimit.remaining = 0

\* C2: the stored timestamps never hold more than 10 inside a trailing one-hour
\* window, overlapping requests included.
C2_AtMostTenPerHour ==
    \A t \in {now} \cup {rateLimit[i] : i \in DOMAIN rateLimit} :
        Len(Recent(rateLimit, t)) <= MaxCommentsPerHour

\* C3: generateComment rejects a request that comes less than 30 s after the
\* last recorded generation, and a request it rejects when 30 s have passed is
\* rejected for the hourly limit.
C3_CooldownRejects ==
    \A r \in Req :
        /\ req[r].pc # "idle" /\ req[r].soon => req[r].via = "blocked"
        /\ req[r].via = "blocked" /\ ~req[r].soon =>
              Len(Recent(req[r].rl0, now)) >= MaxCommentsPerHour
                 \/ req[r].result.rateLimit.remaining = 0

\* C4: a request that returned success:false left the stored timestamps and the
\* stored cache as they were when it started.
C4_FailureConsumesNoQuota ==
    \A r \in Req :
        req[r].pc = "done" /\ ~req[r].result.success =>
            /\ rateLimit = req[r].rl0
            /\ responseCache = req[r].cache0

\* a provider failure after earlier generations were recorded and cached
C4_Witness ==
    \E r \in Req :
        /\ req[r].pc = "done"
        /\ req[r].via = "failed"
        /\ req[r].result.error = ErrServer
        /\ rateLimit # <<>>
        /\ responseCache # EmptyCache

\* C5: the status inside a freshly generated result counts the generation that
\* just completed: read right after the return, remaining is 10 minus the
\* number of timestamps in the trailing hour.
C5_StatusCountsThisGeneration ==
    \A r \in Req :
        /\ req[r].via = "provider"
        /\ rateLimit # <<>>
        /\ rateLimit[Len(rateLimit)] = now
        => req[r].result.rateLimit.remaining =
               MaxCommentsPerHour - Len(Recent(rateLimit, now))

\* C6: when a provider-backed request has returned, the stored timestamps are
\* the ones of the trailing hour it found followed by exactly one new one, taken
\* from the clock after the cache write, and the cache holds the returned result
\* under the post's key.
C6_SuccessRecordsOnce ==
    \A r \in Req :
        req[r].via = "provider" =>
            LET n == Len(rateLimit)
                key == CacheKey(req[r].post)
            IN  /\ n >= 1
                /\ rateLimit[n] <= now
                /\ SubSeq(rateLimit, 1, n - 1) =
                       SelectSeq(req[r].rl0, LAMBDA x : x > rateLimit[n] - WindowMs)
                /\ key \in DOMAIN responseCache
                /\ responseCache[key].value = req[r].result
                /\ responseCache[key].timestamp <= rateLimit[n]
                /\ req[r].result.success

\* a generation recorded after earlier ones, one of which had left the window
C6_Witness ==
    \E r \in Req :
        /\ req[r].via = "provider"
        /\ req[r].cache0 # EmptyCache
        /\ Len(rateLimit) >= 2
        /\ Len(rateLimit) < Len(req[r].rl0) + 1

\* C7: after a successful generation the generated comment is the first entry of
\* the stored comment history.
C7_CommentHeadsHistory ==
    \A r \in Req :
        req[r].via = "provider" =>
            /\ commentHistory # <<>>
            /\ GetRecentComments(commentHistory)[1].text = req[r].result.comment

\* C8: an entry written at T and not rewritten since is a hit for a lookup up
\* to T+23h59m and a miss for one from T+24h01m on, for CacheService.get (the
\* value it returned) and for the lookup of a request without a vibe (the step
\* that leaves "lookup": it returns the cached value, or goes on to stage 1).
C8_EntryLivesADay ==
    /\ [](getResult.called /\ getResult.age >= 0 =>
            /\ getResult.age <= CacheTtlMs - MsPerMinute => getResult.hit
            /\ getResult.age >= CacheTtlMs + MsPerMinute => ~getResult.hit)
    /\ [][\A r \in Req :
            (/\ req[r].pc = "lookup"
             /\ req'[r].pc # "lookup"
             /\ req[r].vibe = NoVibe
             /\ CacheKey(req[r].post) \in DOMAIN responseCache) =>
            LET entry == responseCache[CacheKey(req[r].post)]
            IN  /\ now - entry.timestamp <= CacheTtlMs - MsPerMinute =>
                      /\ req'[r].via = "cache"
                      /\ req'[r].result = entry.value
                /\ now - entry.timestamp >= CacheTtlMs + MsPerMinute =>
                      req'[r].pc = "stage1"]_vars

\* CacheService.get found an entry a day and a minute old and returned null
C8_Witness ==
    /\ getResult.called
    /\ ~getResult.hit
    /\ getResult.age = CacheTtlMs + MsPerMinute

\* C9: after CacheService.set was given 101 fingerprints, each once, at
\* strictly increasing times that span at most 24 hours, the cache holds
\* exactly 100 entries: every fingerprint but the first one.
C9_OldestOfHundredAndOneEvicted ==
    (/\ inserted = MaxEntries + 1
     /\ touched = 0
     /\ now - firstAt <= CacheTtlMs) =>
        /\ Len(semCache) = MaxEntries
        /\ Find(semCache, 1) = 0
        /\ \A h \in 2..(MaxEntries + 1) : Find(semCache, h) # 0

\* the 101st fingerprint is in, within the day, and a get for the first
\* fingerprint found nothing
C9_Witness ==
    /\ inserted = MaxEntries + 1
    /\ now - firstAt <= CacheTtlMs
    /\ Len(semCache) = MaxEntries
    /\ getResult = Null(1, -1)

\* C10: a CacheService.get hit never returns the comment text that the get hit
\* right before it returned for the same fingerprint.
C10_NeverTheSameTextTwice == getResult.hit => ~repeated

\* a network error or a 5xx
Transient(resp) == resp.net \/ resp.status = 500
\* a 2xx whose document has the layout the provider's extraction reads
Extractable(resp, c) ==
    ~resp.net /\ resp.status = 200 /\ resp.layout = LayoutOf(c.settings.llmProvider)

\* C11: when every HTTP attempt of a callLLM invocation failed with a network
\* error or a 5xx, at most 3 attempts were made, and each wait before a retry
\* is double the wait before it.
C11_ThreeAttemptsDoublingWaits ==
    (\A i \in 1..Len(call.got) : Transient(call.got[i])) =>
        /\ Len(call.sent) <= 3
        /\ \A i \in 2..Len(call.waits) : call.waits[i].ms = 2 * call.waits[i - 1].ms

\* C12: a call whose first two attempts failed with a transient error and
\* whose third response can be extracted has returned the text of the third
\* response after exactly three attempts.
C12_ThirdAttemptAnswers ==
    (/\ Len(call.got) >= 3
     /\ Transient(call.got[1])
     /\ Transient(call.got[2])
     /\ Extractable(call.got[3], call)) =>
        /\ call.pc = "done"
        /\ call.ok
        /\ call.text = call.got[3].text
        /\ Len(call.sent) = 3

\* two 5xx, then the answer <<"b">>, returned
C12_Witness ==
    /\ Len(call.got) = 3
    /\ call.got[1] = Http(500, <<>>, BodyOops)
    /\ call.got[2] = NetError
    /\ call.got[3] = Ok200("choices", <<"b">>)
    /\ call.pc = "done"
    /\ call.text = <<"b">>

\* C13: a call whose first response had status 401 or 403 has failed with
\* that error after exactly one attempt and without any wait.
C13_AuthFailsAtOnce ==
    (/\ Len(call.got) >= 1
     /\ ~call.got[1].net
     /\ call.got[1].status \in {401, 403}) =>
        /\ call.pc = "done"
        /\ ~call.ok
        /\ call.error = MsgApi(call.got[1])
        /\ Len(call.sent) = 1
        /\ call.waits = <<>>

\* a 403 was the first response and the call is over
C13_Witness ==
    /\ call.got = <<Http(403, <<>>, BodyOops)>>
    /\ call.pc = "done"
    /\ call.error = MsgApi(Http(403, <<>>, BodyOops))

Is429(resp) == ~resp.net /\ resp.status = 429

\* the attempts of a call stay within one budget, whatever caused the retries
C14_OneBudget ==
    /\ Len(call.sent) <= MaxRetries + 1
    /\ call.pc \in {"fetch", "wait", "done"} /\ call.sent # <<>> =>
          call.retryCount = Len(call.sent) - 1

\* C14 as stated: after a 429 with Retry-After: n the next attempt starts at
\* least n seconds later; after a 429 without the header the wait is the
\* fixed fallback; 429 retries and transient retries share one attempt budget.
C14_RetryAfterOrFixedFallback ==
    /\ C14_OneBudget
    /\ \A i \in 1..Len(call.waits) : Is429(call.got[i]) =>
          /\ (ParseInt(call.got[i].retryAfter) >= 0 /\ i < Len(call.sent)) =>
                call.sent[i + 1] - call.waits[i].at
                    >= ParseInt(call.got[i].retryAfter) * 1000
          /\ call.got[i].retryAfter = <<>> =>
                call.waits[i].ms = DefaultWaitS * 1000 + WaitMarginMs

\* C14 amended: as stated, but without the header the wait is the fixed
\* fallback only when the body names no delay; when the body says
\* "retry in Ns" the next attempt starts at least N seconds later.
C14_RetryAfterBodyOrFallback ==
    /\ C14_OneBudget
    /\ \A i \in 1..Len(call.waits) : Is429(call.got[i]) =>
          /\ (ParseInt(call.got[i].retryAfter) >= 0 /\ i < Len(call.sent)) =>
                call.sent[i + 1] - call.waits[i].at
                    >= ParseInt(call.got[i].retryAfter) * 1000
          /\ (call.got[i].retryAfter = <<>>
                 /\ ~Includes(call.got[i].body, RetryInPhrase)) =>
                call.waits[i].ms = DefaultWaitS * 1000 + WaitMarginMs
          /\ (call.got[i].retryAfter = <<>> /\ i < Len(call.sent)
                 /\ call.got[i].body = BodyQuota) =>
                call.sent[i + 1] - call.waits[i].at >= 20000

\* a 429 with Retry-After: 7 came after a transient failure, and the next
\* attempt was made
C14_Witness ==
    /\ Len(call.sent) = 3
    /\ Transient(call.got[1])
    /\ call.got[2] = Http(429, <<"7">>, BodyOops)
    /\ call.waits[2].cause = "429"

\* C15: after a 2xx response whose document has not the expected layout the
\* call has failed, and no HTTP attempt follows that response.
C15_BadShapeNotRetried ==
    \A i \in 1..Len(call.got) :
        (/\ ~call.got[i].net
         /\ call.got[i].status = 200
         /\ ~Extractable(call.got[i], call)) =>
            /\ Len(call.sent) = i
            /\ call.pc = "done"
            /\ ~call.ok

\* C16: no HTTP request of a call is in flight for more than 30 seconds.
C16_FetchTimesOut ==
    call.pc = "fetch" => now - call.sent[Len(call.sent)] <= BridgeTimeoutMs

\* errors a Stage-1 call can end with
Stage1Errors == {ErrNoKey, ErrAuth, ErrServer, ErrOffscreen, ErrPuter}

\* C17: when the Stage-1 call returned text that is no JSON, the request goes
\* on: Stage 2 runs with the fallback analysis (focal point = first 100
\* characters of the post, tone "professional"); a failure can only come from
\* Stage 2, and once Stage 2 has answered the result built is a success
\* carrying that analysis.
C17_UnparsedAnalysisFallsBack ==
    /\ [](\A r \in Req : req[r].s1 = "text" =>
            LET fallback == [focalPoint |-> Slice(req[r].post.postContent, 100),
                             recommendedTone |-> "professional"]
            IN  /\ req[r].pc \in {"stage2", "status", "done"}
                /\ req[r].pc \in {"stage2", "status"} => req[r].analysis = fallback
                /\ req[r].pc = "done" =>
                      /\ req[r].via = "failed"
                      /\ req[r].trace = <<"gate", "cache", "analyze", "generate">>)
    /\ [][\A r \in Req :
            (req[r].s1 = "text" /\ req[r].pc = "status" /\ req'[r].pc # "status") =>
            /\ req'[r].final.success
            /\ req'[r].final.comment = req[r].comment
            /\ req'[r].final.analysis =
                  [focalPoint |-> Slice(req[r].post.postContent, 100),
                   recommendedTone |-> "professional"]]_vars

\* Stage 1 answered "sorry" for the long post and Stage 2 has answered
C17_Witness ==
    /\ req[1].s1 = "text"
    /\ req[1].pc = "status"
    /\ req[1].post = PostD
    /\ Len(req[1].analysis.focalPoint) = 100
    /\ req[1].comment = <<"b">>

\* C18: after a Stage-1 call that threw (no key, authentication error, server
\* error after the retries, local-provider error) no Stage-2 call is made: the
\* request has ended as Failed with that error.
C18_Stage1ErrorFails ==
    \A r \in Req : req[r].s1 \in Stage1Errors =>
        /\ req[r].trace = <<"gate", "cache", "analyze">>
        /\ req[r].pc = "done" => req[r].result = Failed(req[r].s1)
        /\ req[r].pc # "status"

\* C19: a callLLM invocation for a remote provider with an empty key has
\* thrown the missing-key error without any HTTP request and without any
\* wait; one for a local provider has not thrown it; and a request with such
\* settings whose Stage-2 call is made returns success:false with that message.
C19_MissingKeyFailsWithoutRequest ==
    /\ []((call.pc # "idle" /\ call.settings.apiKey = ""
            /\ RemoteProvider(call.settings)) =>
              /\ call.pc = "done"
              /\ ~call.ok
              /\ call.error = MsgNoKey
              /\ call.sent = <<>>
              /\ call.waits = <<>>)
    /\ []((call.pc # "idle" /\ ~RemoteProvider(call.settings)) =>
              call.error # MsgNoKey)
    /\ [][\A r \in Req :
            (/\ req[r].pc = "stage2"
             /\ req'[r].pc # "stage2"
             /\ req[r].settings.apiKey = "") =>
                IF RemoteProvider(req[r].settings)
                THEN /\ req'[r].pc = "done"
                     /\ req'[r].result = Failed(ErrNoKey)
                     /\ req[r].s1 = ErrNoKey
                ELSE req'[r].pc = "done" => req'[r].result.error # ErrNoKey]_vars

\* callLLM was given the default settings and is over
C19_Witness ==
    /\ call.pc = "done"
    /\ call.settings = DefaultSettings
    /\ call.error = MsgNoKey
    /\ call.sent = <<>>

\* C20: the steps of a request are a prefix of gate, cache, analyze,
\* generate; a request the gate rejected took the gate step only and left
\* the stored timestamps and cache as they were; Stage 2 is reached only with
\* the Stage-1 call over.
C20_GateCacheAnalyzeGenerate ==
    \A r \in Req :
        LET order == <<"gate", "cache", "analyze", "generate">>
            t == req[r].trace
        IN  /\ Len(t) <= Len(order)
            /\ t = SubSeq(order, 1, Len(t))
            /\ req[r].via = "blocked" =>
                  /\ t = <<"gate">>
                  /\ rateLimit = req[r].rl0
                  /\ responseCache = req[r].cache0
            /\ req[r].pc = "lookup" => t = <<"gate">>
            /\ req[r].pc = "stage1" => t = <<"gate", "cache">>
            /\ req[r].pc = "stage2" =>
                  /\ t = <<"gate", "cache", "analyze">>
                  /\ req[r].s1 # "none"

\* the eleventh request of the hour was rejected at the gate
C20_Witness ==
    /\ req[1].via = "blocked"
    /\ req[1].trace = <<"gate">>
    /\ Len(rateLimit) = MaxCommentsPerHour

----------------------------------------------------------------------------
\* Claims about the similarity check

\* the similarity of the compared comment with entry i of the history
SimilarityWith(i) == CalculateSimilarity(simResult.comment, commentHistory[i].text)

\* the 20 most recent entries
RecentEntries == { i \in DOMAIN commentHistory : i <= RecentLimit }

\* C21 (as stated): a comment is blocked when its Jaccard similarity with one
\* of the 20 most recent entries is 60% or more, and is not blocked when its
\* similarity with each of them is 59% or less.
C21_SixtyOrMoreBlocks ==
    simResult.made =>
      /\ (\E i \in RecentEntries :
             SimilarityWith(i).shared * 100 >= 60 * SimilarityWith(i).all)
            => ~simResult.value.passed
      /\ (\A i \in RecentEntries :
             SimilarityWith(i).shared * 100 <= 59 * SimilarityWith(i).all)
            => simResult.value.passed

\* C21 (amended): a comment is blocked when its Jaccard similarity with one of
\* the 20 most recent entries is more than 60%, and is not blocked when its
\* similarity with each of them is 60% or less.
C21_MoreThanSixtyBlocks ==
    simResult.made =>
      /\ (\E i \in RecentEntries :
             SimilarityWith(i).shared * 100 > 60 * SimilarityWith(i).all)
            => ~simResult.value.passed
      /\ (\A i \in RecentEntries :
             SimilarityWith(i).shared * 100 <= 60 * SimilarityWith(i).all)
            => simResult.value.passed

\* a comment that shares exactly 3 of 5 words with a recent entry, and less
\* with the others, was compared, with an entry older than the 20 most recent
\* that shares more
C21_Witness ==
    /\ simResult.made
    /\ \E i \in RecentEntries :
          SimilarityWith(i).shared * 5 = 3 * SimilarityWith(i).all
    /\ \A i \in RecentEntries :
          SimilarityWith(i).shared * 5 <= 3 * SimilarityWith(i).all
    /\ \E i \in DOMAIN commentHistory :
          i > RecentLimit /\ SimilarityWith(i).shared * 4 = 3 * SimilarityWith(i).all
    /\ simResult.value.passed

----------------------------------------------------------------------------
\* Claims about overlapping requests

\* C22: when overlapping requests have all succeeded, the stored rate-limit
\* state holds a timestamp for each of them and the stored cache holds the
\* entry each of them wrote: no update of recordCommentGeneration or setCache
\* is lost.
C22_NoUpdateLost ==
    (\A r \in Req : req[r].pc = "done" /\ req[r].via = "provider") =>
        /\ Len(rateLimit) = NumReq
        /\ \A r \in Req :
              /\ CacheKey(req[r].post) \in DOMAIN responseCache
              /\ \E q \in Req :
                    /\ req[q].post = req[r].post
                    /\ responseCache[CacheKey(req[r].post)].value = req[q].result

----------------------------------------------------------------------------
\* Claims about the fingerprint

\* the two fingerprinted posts have the same author and the same keywords, and
\* their contents are equal once emoji and punctuation are taken out
NoiseApart ==
    /\ Len(fingerprints) = 2
    /\ fingerprints[1].post.author = fingerprints[2].post.author
    /\ ExtractKeywords(fingerprints[1].post.content)
          = ExtractKeywords(fingerprints[2].post.content)
    /\ StripNoise(fingerprints[1].post.content)
          = StripNoise(fingerprints[2].post.content)

\* C23 (as stated): two posts by the same author that share their keywords and
\* differ only by emoji and punctuation characters get the same fingerprint.
C23_NoiseKeepsFingerprint ==
    NoiseApart => fingerprints[1].hash = fingerprints[2].hash

\* both contents have at most 100 code units, or both 101 to 200, or both more
SameLengthBucket ==
    LET n1 == Len(fingerprints[1].post.content)
        n2 == Len(fingerprints[2].post.content)
    IN  \/ n1 <= 100 /\ n2 <= 100
        \/ n1 > 100 /\ n1 <= 200 /\ n2 > 100 /\ n2 <= 200
        \/ n1 > 200 /\ n2 > 200

\* C23 (amended): two posts by the same author that share their keywords,
\* differ only by emoji and punctuation characters and have lengths in the
\* same bucket (at most 100, 101 to 200, more than 200 code units) get the
\* same fingerprint.
C23_NoiseInOneBucketKeepsFingerprint ==
    NoiseApart /\ SameLengthBucket => fingerprints[1].hash = fingerprints[2].hash

\* two different contents that differ by noise only, of lengths in one
\* bucket, were fingerprinted for the same author
C23_Witness ==
    /\ NoiseApart
    /\ SameLengthBucket
    /\ fingerprints[1].post.content # fingerprints[2].post.content
    /\ Len(fingerprints[1].post.content) # Len(fingerprints[2].post.content)
    /\ fingerprints[1].hash = fingerprints[2].hash

----------------------------------------------------------------------------
\* Claims about the Suggest button

\* the README's "3+ seconds"
DwellMs == 3000

\* the pointer has stayed on post p for 3 seconds, before or until now
Dwelt(p) ==
    \/ feed[p].dwelt >= DwellMs
    \/ pointer.over = p /\ now - pointer.since >= DwellMs

\* C24: the Suggest button of a post is shown only after the pointer has
\* stayed on that post for at least 3 seconds.
C24_ButtonOnlyAfterDwell ==
    \A p \in FeedPosts : feed[p].button => Dwelt(p)

----------------------------------------------------------------------------
\* Claims about the rate check at the hourly limit

\* 10 or more stored timestamps lie in the trailing hour
AtHourlyLimit == Len(Recent(rateLimit, now)) >= MaxCommentsPerHour

\* m is the number of minutes, rounded up, until the oldest stored timestamp
\* of the trailing hour leaves it, and lies between 1 and 60
MinutesToReset(m) ==
    LET inWindow == {x \in {rateLimit[i] : i \in DOMAIN rateLimit} : x > now - WindowMs}
        oldest == CHOOSE x \in inWindow : \A y \in inWindow : x <= y
        left == oldest + WindowMs - now
    IN  /\ m \in 1..60
        /\ m * MsPerMinute >= left
        /\ (m - 1) * MsPerMinute < left

\* C25: with 10 or more timestamps in the trailing hour the rate check rejects
\* for the hourly limit, whether or not the last generation was within 30 s,
\* and reports as resetIn the minutes, rounded up, until the oldest in-window
\* timestamp leaves the window, between 1 and 60: AntiDetect.checkRateLimit
\* in the value it returns, the service worker in the gate of generateComment.
C25_HourlyLimitBeforeCooldown ==
    /\ [](adResult # NoCheck /\ AtHourlyLimit =>
            /\ ~adResult.allowed
            /\ adResult.reason = "Hourly limit reached"
            /\ adResult.remaining = 0
            /\ MinutesToReset(adResult.resetIn))
    /\ [][\A r \in Req :
            AtHourlyLimit /\ req[r].pc \in {"idle", "done"} /\ req'[r] # req[r] =>
               /\ req'[r].via = "blocked"
               /\ ~req'[r].result.rateLimit.allowed
               /\ MinutesToReset(req'[r].result.rateLimit.resetIn)]_vars

\* AntiDetect.checkRateLimit was asked at the limit, less than 30 s after the
\* last generation, with a full hour to wait; a request was rejected at the
\* limit, less than 30 s after the last generation
C25_Witness ==
    /\ adResult # NoCheck
    /\ AtHourlyLimit
    /\ TooSoon(rateLimit, now)
    /\ adResult.reason = "Hourly limit reached"
    /\ adResult.resetIn = 60
    /\ \E r \in Req : req[r].via = "blocked" /\ req[r].soon

----------------------------------------------------------------------------
\* Claims about the responses of a CacheService entry

\* C26: every entry of the cache holds 1 to 5 responses; CacheService.set on
\* a new fingerprint creates an entry with exactly the response given, on a
\* fingerprint with fewer than 5 responses it appends the response at the
\* end, on a fingerprint with 5 it leaves the responses as they are, and in
\* each case the entry's timestamp is the current time.
C26_OneToFiveResponses ==
    /\ [](\A i \in DOMAIN semCache : Len(semCache[i].responses) \in 1..5)
    /\ [][lastSet'.called =>
            LET old == Find(semCache, lastSet'.hash)
                new == Find(semCache', lastSet'.hash)
            IN  /\ new # 0
                /\ semCache'[new].timestamp = now'
                /\ old = 0 => semCache'[new].responses = <<lastSet'.response>>
                /\ old # 0 /\ Len(semCache[old].responses) < 5 =>
                      semCache'[new].responses =
                          semCache[old].responses \o <<lastSet'.response>>
                /\ old # 0 /\ Len(semCache[old].responses) = 5 =>
                      semCache'[new].responses = semCache[old].responses]_vars

\* a sixth response was given for a fingerprint whose entry holds five, of
\* which the last differs from the one given
C26_Witness ==
    /\ lastSet.called
    /\ Find(semCache, lastSet.hash) # 0
    /\ LET e == semCache[Find(semCache, lastSet.hash)]
       IN  /\ Len(e.responses) = 5
           /\ e.responses[5] # lastSet.response
           /\ e.responses[1] # e.responses[5]
           /\ e.timestamp = now
           /\ touched >= 5

----------------------------------------------------------------------------
\* Claims about the service worker's cache

\* C27: whenever generateComment has written the response cache, the stored
\* cache holds at most 100 entries and no entry older than 24 hours (the
\* write is taken at the instant its own entry is stamped with).
C27_WriteThroughEvicts ==
    [][\A r \in Req :
         (/\ req[r].pc = "cacheSet"
          /\ req'[r].pc # "cacheSet"
          /\ req[r].pendCache[CacheKey(req[r].post)].timestamp = now) =>
            /\ Cardinality(DOMAIN responseCache') <= 100
            /\ \A k \in DOMAIN responseCache' :
                  now - responseCache'[k].timestamp <= CacheTtlMs]_vars

\* C28: an admitted request without a vibe that finds an unexpired entry for
\* its key returns the stored result of that entry, calls no provider and
\* leaves the stored timestamps and the stored cache as they are.
C28_HitReturnsStoredResult ==
    /\ [][\A r \in Req :
            (/\ req[r].pc = "lookup"
             /\ req'[r].pc # "lookup"
             /\ req[r].vibe = NoVibe
             /\ CacheKey(req[r].post) \in DOMAIN responseCache
             /\ now - responseCache[CacheKey(req[r].post)].timestamp < CacheTtlMs) =>
                /\ req'[r].pc = "done"
                /\ req'[r].result = responseCache[CacheKey(req[r].post)].value
                /\ req'[r].trace = <<"gate", "cache">>
                /\ rateLimit' = rateLimit
                /\ responseCache' = responseCache]_vars
    /\ [](\A r \in Req :
            req[r].via = "cache" =>
                /\ rateLimit = req[r].rl0
                /\ responseCache = req[r].cache0)

\* a request without a vibe was answered from the cache with the result an
\* earlier request had stored, after generations were recorded
C28_Witness ==
    \E r \in Req :
        /\ req[r].via = "cache"
        /\ req[r].vibe = NoVibe
        /\ req[r].result.success
        /\ req[r].result = responseCache[CacheKey(req[r].post)].value
        /\ req[r].trace = <<"gate", "cache">>
        /\ Len(rateLimit) >= 2

\* the stored entry for the post of request r is unexpired and holds a comment
\* generated under a vibe other than the one r carries
OtherVibeCached(r) ==
    /\ CacheKey(req[r].post) \in DOMAIN responseCache
    /\ now - responseCache[CacheKey(req[r].post)].timestamp < CacheTtlMs
    /\ \E v \in Vibes \ {NoVibe, req[r].vibe} :
          responseCache[CacheKey(req[r].post)].value.comment = CommentFor(v)

\* C29 (as stated, in the form a run refutes): a request carrying a vibe that
\* finds an unexpired response generated for a different vibe on the same
\* post is answered from the cache with that response.
C29_OtherVibeAnswersFromCache ==
    [][(/\ req[1].pc = "lookup"
        /\ req'[1].pc # "lookup"
        /\ req[1].vibe # NoVibe
        /\ OtherVibeCached(1)) =>
           /\ req'[1].via = "cache"
           /\ req'[1].result = responseCache[CacheKey(req[1].post)].value]_vars

\* C29 (amended): in no execution is a request carrying a vibe answered from
\* the cache; a request that is answered from the cache carries no vibe.
C29_VibeNotAnsweredFromCache ==
    \A r \in Req :
        /\ req[r].via = "cache" => req[r].vibe = NoVibe
        /\ req[r].vibe # NoVibe /\ req[r].pc = "done" /\ req[r].result.success =>
              req[r].result.comment = CommentFor(req[r].vibe)

\* a request carrying a vibe found an unexpired response generated for
\* another vibe on its post and returned a comment of its own vibe
C29_Witness ==
    /\ req[1].via = "provider"
    /\ req[1].vibe = OtherVibe
    /\ CacheKey(PostA) \in DOMAIN req[1].cache0
    /\ req[1].cache0[CacheKey(PostA)].value.comment = CommentFor(SomeVibe)
    /\ now - req[1].cache0[CacheKey(PostA)].timestamp < CacheTtlMs
    /\ req[1].result.comment = CommentFor(OtherVibe)

\* C30: a request carrying a vibe is never answered from the cache: once
\* admitted it calls the provider, and when it succeeds the entry stored under
\* the key of its post, a key without the vibe, holds its result; a later
\* request without a vibe for that post can thus get that comment (the
\* witness).
C30_VibeRequestOverwritesEntry ==
    \A r \in Req :
        req[r].vibe # NoVibe =>
            /\ req[r].via # "cache"
            /\ req[r].pc = "done" /\ req[r].via # "blocked" =>
                  /\ Len(req[r].trace) >= 3
                  /\ req[r].trace[3] = "analyze"
            /\ req[r].via = "provider" =>
                  /\ CacheKey(req[r].post) \in DOMAIN responseCache
                  /\ responseCache[CacheKey(req[r].post)].value = req[r].result
                  /\ DOMAIN responseCache = {CacheKey(req[r].post)}

\* a request without a vibe was answered from the cache with the comment
\* generated under a vibe, which had replaced one generated without
C30_Witness ==
    /\ req[1].via = "cache"
    /\ req[1].vibe = NoVibe
    /\ req[1].result.comment = CommentFor(SomeVibe)
    /\ generated >= 2
\* the stored timestamps disallow a comment now: ten or more in the last
\* hour, or one less than 30 s ago
RateDisallows ==
    \/ Cardinality({ i \in DOMAIN rateLimit : rateLimit[i] > now - WindowMs })
          >= MaxCommentsPerHour
    \/ \E i \in DOMAIN rateLimit :
          rateLimit[i] > now - WindowMs /\ now - rateLimit[i] < MinTimeBetweenComments

\* some entry among the 20 most recent shares more than 60% of the words of
\* the comment the full check was given
SimilarityFails ==
    \E i \in 1..Min2(Len(commentHistory), RecentLimit) :
        LET sim == CalculateSimilarity(fullResult.comment, commentHistory[i].text)
        IN  sim.shared * 100 > 60 * sim.all

\* C31: runFullCheck returns passed = false exactly when the rate/cooldown
\* check disallows the request or the similarity check fails, and blocks holds
\* one reason for each of the two that did; what the pattern detector finds
\* is in warnings only.
C31_PatternsOnlyWarn ==
    fullResult.made =>
        /\ fullResult.value.passed = ~(RateDisallows \/ SimilarityFails)
        /\ Len(fullResult.value.blocks) =
              (IF RateDisallows THEN 1 ELSE 0) + (IF SimilarityFails THEN 1 ELSE 0)
        /\ fullResult.value.warnings =
              DetectPatterns(commentHistory, fullResult.comment).issues

\* a full check passed, with nothing in blocks, while the pattern detector
\* reported an issue
C31_Witness ==
    /\ fullResult.made
    /\ fullResult.value.passed
    /\ fullResult.value.blocks = <<>>
    /\ fullResult.value.warnings # <<>>
    /\ DetectPatterns(commentHistory, fullResult.comment).hasPatterns
\* C32 (as stated): the word limit placed in the generation prompt is a
\* monotonic non-decreasing function of settings.maxTokens.
C32_WordLimitMonotonic ==
    \A i, j \in DOMAIN wordLimits :
        wordLimits[i].maxTokens <= wordLimits[j].maxTokens =>
            wordLimits[i].wordLimit <= wordLimits[j].wordLimit

\* C32 (amended): the word limit is the budget divided by 5, rounded down,
\* for budgets from 5 to 200 and 20 for every other budget, so it is
\* non-decreasing among the budgets from 5 to 200.
C32_WordLimitMonotonicToTwoHundred ==
    /\ \A i \in DOMAIN wordLimits :
          LET b == wordLimits[i].maxTokens
              w == wordLimits[i].wordLimit
          IN  IF b >= 5 /\ b <= 200
              THEN 5 * w <= b /\ b < 5 * (w + 1)
              ELSE w = 20
    /\ \A i, j \in DOMAIN wordLimits :
          /\ 5 <= wordLimits[i].maxTokens
          /\ wordLimits[i].maxTokens <= wordLimits[j].maxTokens
          /\ wordLimits[j].maxTokens <= 200
          => wordLimits[i].wordLimit <= wordLimits[j].wordLimit

\* prompts were built for the budgets 150 and 200, with 30 and 40 words
C32_Witness ==
    /\ Len(wordLimits) = 2
    /\ wordLimits[1] = [maxTokens |-> 200, wordLimit |-> 40]
    /\ wordLimits[2] = [maxTokens |-> 150, wordLimit |-> 30]
\* the last generateAndDisplayComment call made on the panel
LaterGen == CHOOSE g \in Gens :
                /\ panel.gens[g].pc # "idle"
                /\ \A h \in Gens : panel.gens[h].pc # "idle" => h <= g

\* C33: when a regenerate request was issued while an earlier generation for
\* the panel was still in flight and both have completed with a comment, the
\* preview shows exactly the comment of the later request.
C33_PreviewShowsLaterComment ==
    (/\ panel.gens[1].pc = "done"
     /\ panel.gens[2].pc = "done"
     /\ panel.gens[1].typed > 0
     /\ panel.gens[2].typed > 0
     /\ \A g \in Gens : panel.gens[g].pc \in {"idle", "done"})
    => panel.preview = panel.gens[LaterGen].comment
\* C34: a GENERATE_COMMENT message as the content script sends it carries the
\* post content and author in the fields the handler reads, so that with a
\* configured key and an empty gate state the request it starts ends in
\* success with the provider's comment, after both stages.
C34_ContentMessageSucceeds ==
    (/\ inbox.type = "GENERATE_COMMENT"
     /\ req[1].rl0 = <<>>
     /\ req[1].pc = "done")
    => /\ Property(inbox, "postContent").defined
       /\ Property(inbox, "authorName").defined
       /\ req[1].result.success
       /\ req[1].result.comment \in CommentTexts
       /\ req[1].trace = <<"gate", "cache", "analyze", "generate">>
\* C35: when callLLM is invoked in the service worker for the provider
\* 'puter', the generation request does not end as Failed because of it.
C35_PuterCallDoesNotFail ==
    \A r \in Req :
        req[r].pc = "done" /\ req[r].s1 = ErrPuter =>
            /\ req[r].via # "failed"
            /\ req[r].result.error # ErrPuter
\* C36: when every HTTP attempt eventually returns a response or an error,
\* every callLLM invocation terminates after a bounded number of attempts,
\* the retries after 429 and after transient errors counted together, and
\* every generateComment request eventually reaches one of the outcomes
\* blocked, success or failure.
C36_CallsAndRequestsTerminate ==
    /\ [](Len(call.sent) <= MaxRetries + 1 /\ call.retryCount <= MaxRetries)
    /\ (call.pc # "idle") ~> (call.pc = "done")
    /\ \A r \in Req :
          (req[r].pc \notin {"idle", "done"})
              ~> (req[r].pc = "done" /\ req[r].via \in {"blocked", "cache", "provider", "failed"})

\* a call ended after its last attempt, having been answered both with a 429
\* and with a transient error
C36_Witness ==
    /\ call.pc = "done"
    /\ Len(call.sent) = MaxRetries + 1
    /\ \E i, j \in DOMAIN call.got : Is429(call.got[i]) /\ call.got[j] = NetError
\* C37: under any interleaving of concurrent setupOffscreenDocument calls,
\* createDocument is never invoked while an offscreen document exists or
\* while another creation is in progress; it is invoked at most once.
C37_OneOffscreenDocument ==
    /\ ~offscreen.clash
    /\ offscreen.invoked <= 1
    /\ \A i \in DOMAIN offscreen.answers :
          offscreen.answers[i][1] = "created" => offscreen.answers[i][2] = 0

\* one caller created the document while another, which had found none,
\* awaited the same promise; both returned, and a third found the document
C37_Witness ==
    /\ offscreen.doc = "open"
    /\ offscreen.invoked = 1
    /\ \A k \in Callers : offscreen.pc[k] = "returned"
    /\ offscreen.creating = "null"
\* C38: when two local-provider requests overlap in the content script, a
\* request is resolved or rejected by a bridge message only when that
\* message answers its own prompt: a SUCCESS or ERROR message for one
\* request never settles the other.
C38_SettledByOwnMessage ==
    \A g \in Gens :
        bridge.reqs[g].pc \in {"resolved", "rejected"} /\ bridge.reqs[g].by # 0
            => bridge.reqs[g].by = g
\* C39: whether a failed HTTP attempt is retried depends on the kind of
\* failure and the HTTP status only, never on the text of the body: a
\* response with status 500 received while attempts remain is followed by a
\* backoff and another attempt whatever its body holds, and a call is given
\* up on its first response only when that response has status 401 or 403
\* (or no attempt remains).
C39_RetryIgnoresBody ==
    \A i \in 1..Len(call.got) :
        call.got[i].status = 500 /\ i <= MaxRetries
            => call.pc = "wait" \/ Len(call.sent) > i
\* C40: after CacheService.set(post, response) has returned, the cache holds
\* an entry for the fingerprint of that post, whatever the cache held before
\* and whatever the clock read, a full cache whose entries carry the
\* timestamp of the new write included: eviction never removes the entry
\* just written.
C40_WrittenEntryKept ==
    lastSet.called => Find(semCache, lastSet.hash) # 0

====
